---------------------------- MODULE Spec2Model ----------------------------
(***************************************************************************)
(* A model of the lexadvisor client: the incremental-response stream       *)
(* parser of Chat.sendMessage, the role administration of                  *)
(* Users.handleRoleChange over the user_roles table, the document          *)
(* catalogue of Documents, and the conversations and messages of Chat,     *)
(* each with the row-level policies of the backend.                        *)
(*                                                                         *)
(* Text is a sequence of tokens.  Every token is the literal text it       *)
(* stands for, so the concatenation of a token sequence is the byte        *)
(* stream the code sees.  Chunk boundaries fall between tokens.  The       *)
(* alphabet is chosen so that no two adjacent tokens form another token    *)
(* or the "data: " prefix.                                                 *)
(***************************************************************************)
EXTENDS Naturals, Sequences, FiniteSets, Bags

---------------------------------------------------------------------------
(* Bounds *)

\* Largest number of times a view sends the first request of a handler:
\* sendMessage, createNewConversation, deleteConversation of the Chat view;
\* the mount, handleUpload, handleValidate, handleDelete of the Documents
\* views.  Also the largest number of fetchMessages requests waiting when a
\* conversation is selected.
MaxActions == 2

\* Largest number of lines the endpoint sends to a call of the Chat view.
MaxChatLines == 1

\* Largest number of requests of the Chat view that fail: a request the
\* transport loses, a stream request answered with a status that is not 2xx.
MaxFaults == 1

\* Largest number of documents ever uploaded.
MaxDocs == 2

\* Largest number of rows in system_logs.
MaxLogs == 2

\* Largest number of lines the endpoint sends, an unterminated last one
\* included.
MaxLines == 3

---------------------------------------------------------------------------
(* The token alphabet *)

NL == "\n"
CR == "\r"
SP == " "
COLON == ":"
DATA == "data: "
DONE == "[DONE]"
\* A delta payload cut before its closing part (content a, content b).
OA == "{\"choices\":[{\"delta\":{\"content\":\"a"
OB == "{\"choices\":[{\"delta\":{\"content\":\"b"
\* The closing part of a delta payload.
CLOSE == "\"}}]}"
\* A complete payload whose delta carries no content (the role-only record).
ROLE == "{\"choices\":[{\"delta\":{\"role\":\"assistant\"}}]}"
\* What trim() leaves of a trailing "data: " token.
DATATRIMMED == "data:"

\* JavaScript white space among the tokens (String.prototype.trim).
WhiteSpace == {SP, CR, NL}

\* Tokens that may stand inside a JSON string literal unescaped.
StringSafe == {SP, COLON, DATA, DONE, DATATRIMMED}

---------------------------------------------------------------------------
(* String operations of the code, on token sequences *)

\* The index of the first t at or after position i of s, 0 when there is none.
RECURSIVE IndexFrom(_, _, _)
IndexFrom(s, t, i) ==
  IF i > Len(s) THEN 0
  ELSE IF s[i] = t THEN i
  ELSE IndexFrom(s, t, i + 1)

\* buffer.indexOf('\n'): the 1-based index of the first t, 0 for JS's -1.
IndexOf(s, t) ==
  IF \E i \in 1..Len(s) : s[i] = t
  THEN CHOOSE i \in 1..Len(s) : s[i] = t /\ \A j \in 1..(i - 1) : s[j] # t
  ELSE 0

\* s.startsWith(t) for a token t.
StartsWith(s, t) == Len(s) > 0 /\ s[1] = t

\* s.endsWith(t) for a token t.
EndsWith(s, t) == Len(s) > 0 /\ s[Len(s)] = t

RECURSIVE TrimStart(_)
TrimStart(s) ==
  IF Len(s) > 0 /\ s[1] \in WhiteSpace THEN TrimStart(Tail(s)) ELSE s

RECURSIVE TrimEnd(_)
TrimEnd(s) ==
  IF Len(s) = 0 THEN s
  ELSE IF s[Len(s)] \in WhiteSpace THEN TrimEnd(SubSeq(s, 1, Len(s) - 1))
  ELSE IF s[Len(s)] = DATA THEN SubSeq(s, 1, Len(s) - 1) \o <<DATATRIMMED>>
  ELSE s

\* s.trim().
Trim(s) == TrimEnd(TrimStart(s))

\* line.slice(6) of a line that starts with the six characters "data: ".
SliceDataPrefix(line) == Tail(line)

---------------------------------------------------------------------------
(* JSON.parse and the delta path *)

\* jsonStr is a delta payload: an opening part, string-safe text, the close.
IsDeltaJSON(jsonStr) ==
  /\ Len(jsonStr) >= 2
  /\ jsonStr[1] \in {OA, OB}
  /\ jsonStr[Len(jsonStr)] = CLOSE
  /\ \A i \in 2..(Len(jsonStr) - 1) : jsonStr[i] \in StringSafe

\* The try block's evaluation of
\*   parsed = JSON.parse(jsonStr); content = parsed.choices?.[0]?.delta?.content
\* threw: JSON.parse raised SyntaxError.  content is <<>> for undefined and
\* for "".
JSONParse(jsonStr) ==
  IF IsDeltaJSON(jsonStr)
  THEN [threw |-> FALSE,
        content |-> <<(IF jsonStr[1] = OA THEN "a" ELSE "b")>>
                      \o SubSeq(jsonStr, 2, Len(jsonStr) - 1)]
  ELSE IF jsonStr = <<ROLE>>
  THEN [threw |-> FALSE, content |-> <<>>]
  ELSE [threw |-> TRUE, content |-> <<>>]

\* Variant of Truthy: every extracted content counts, the empty one too.
TruthyAlways(content) == TRUE

\* if (content): a string is truthy when it is not empty.
Truthy(content) == content # <<>>

---------------------------------------------------------------------------
(* The line-extraction loop of sendMessage *)

\* if (line.endsWith('\r')) line = line.slice(0, -1)
StripCR(line) ==
  IF EndsWith(line, CR) THEN SubSeq(line, 1, Len(line) - 1) ELSE line

\* Variant of IsSkipped: the test of the "data: " prefix is missing.
IsSkippedNoPrefixTest(line) ==
  \/ StartsWith(line, COLON)
  \/ Trim(line) = <<>>

\* The two `continue` tests: a comment line, a blank line, or a line without
\* the "data: " prefix.
IsSkipped(line) ==
  \/ StartsWith(line, COLON)
  \/ Trim(line) = <<>>
  \/ ~StartsWith(line, DATA)

\* jsonStr === '[DONE]'
IsSentinel(jsonStr) == jsonStr = <<DONE>>

\* Variant of AppendDelta: the delta replaces the accumulated text.
AppendDeltaOverwrite(assistantContent, content) == content

\* assistantContent += content
AppendDelta(assistantContent, content) == assistantContent \o content

\* Variant of Rebuffer: the newline is not restored.
RebufferNoNewline(line, rest) == line \o rest

\* Variant of Rebuffer: the line is dropped.
RebufferDrop(line, rest) == rest

\* The catch block: buffer = line + '\n' + buffer
Rebuffer(line, rest) == line \o <<NL>> \o rest

\* The updater handed to setMessages: overwrite the content of a trailing
\* assistant entry, otherwise append a new assistant entry.
SetMessagesUpdater(prev, content) ==
  IF Len(prev) > 0 /\ prev[Len(prev)].role = "assistant"
  THEN [i \in 1..Len(prev) |->
          IF i = Len(prev) THEN [prev[i] EXCEPT !.content = content] ELSE prev[i]]
  ELSE Append(prev, [role |-> "assistant", content |-> content])

\* One iteration of `while ((newlineIndex = buffer.indexOf('\n')) !== -1)`,
\* taken when the buffer holds a newline.  st is the parser's state: buffer,
\* assistantContent, messages, and the records emitted (every value handed to
\* setMessages), deltas (every content extracted), doneSeen (a sentinel line
\* has been read), lastKind (how the last iteration of the pass ended: skip,
\* delta, nodelta, done, fail, or none before the first) and steps (how many
\* iterations the pass has made).  more is FALSE when the iteration leaves
\* the loop.
LineStep(st) ==
  LET newlineIndex == IndexOf(st.buffer, NL)
      rest == SubSeq(st.buffer, newlineIndex + 1, Len(st.buffer))
      line == StripCR(SubSeq(st.buffer, 1, newlineIndex - 1))
      jsonStr == Trim(SliceDataPrefix(line))
      parsed == JSONParse(jsonStr)
      acc == AppendDelta(st.assistantContent, parsed.content)
  IN IF IsSkipped(line)
     THEN [st |-> [st EXCEPT !.buffer = rest, !.lastKind = "skip",
                             !.steps = st.steps + 1],
           more |-> TRUE]
     ELSE IF IsSentinel(jsonStr)
     THEN [st |-> [st EXCEPT !.buffer = rest, !.lastKind = "done",
                             !.doneSeen = TRUE, !.steps = st.steps + 1],
           more |-> FALSE]
     ELSE IF parsed.threw
     THEN [st |-> [st EXCEPT !.buffer = Rebuffer(line, rest), !.lastKind = "fail",
                             !.steps = st.steps + 1],
           more |-> FALSE]
     ELSE IF Truthy(parsed.content)
     THEN [st |-> [st EXCEPT !.buffer = rest, !.lastKind = "delta",
                             !.steps = st.steps + 1,
                             !.assistantContent = acc,
                             !.messages = SetMessagesUpdater(st.messages, acc),
                             !.emitted = Append(st.emitted, acc),
                             !.deltas = Append(st.deltas, parsed.content)],
           more |-> TRUE]
     ELSE [st |-> [st EXCEPT !.buffer = rest, !.lastKind = "nodelta",
                             !.steps = st.steps + 1],
           more |-> TRUE]

\* Variant of Drain: after a parse failure the line pushed back is extracted
\* once more in the same pass.
RECURSIVE DrainRetriesOnce(_)
DrainRetriesOnce(st) ==
  IF IndexOf(st.buffer, NL) = 0 THEN st
  ELSE LET r == LineStep(st)
       IN IF r.more THEN DrainRetriesOnce(r.st)
          ELSE IF r.st.lastKind = "fail" THEN LineStep(r.st).st
          ELSE r.st

\* The whole inner while loop.
RECURSIVE Drain(_)
Drain(st) ==
  IF IndexOf(st.buffer, NL) = 0 THEN st
  ELSE LET r == LineStep(st)
       IN IF r.more THEN Drain(r.st) ELSE r.st

\* One pass of the outer loop for a chunk that is not the end of the stream:
\* buffer += decoder.decode(value, { stream: true }), then the inner loop.
OnChunk(st, value) ==
  Drain([st EXCEPT !.buffer = st.buffer \o value, !.lastKind = "none",
                   !.steps = 0])

---------------------------------------------------------------------------
(* The completion endpoint: what it may send *)

\* The lines the endpoint sends, without their newline.
LineA == <<DATA, OA, CLOSE>>
LineB == <<DATA, OB, CLOSE, SP, CR>>
LineRole == <<DATA, ROLE>>
LineDone == <<DATA, DONE>>
LineComment == <<COLON, SP>>
LineBlank == <<CR>>
LineIndented == <<SP, DATA, OA, CLOSE>>
LineTruncated == <<DATA, OA>>

LineTemplates ==
  {LineA, LineB, LineRole, LineDone, LineComment, LineBlank, LineIndented,
   LineTruncated}

IsPrefix(p, s) == Len(p) <= Len(s) /\ SubSeq(s, 1, Len(p)) = p

\* Every beginning of a line, the empty one and the whole line included.
LinePrefixes == UNION {{SubSeq(l, 1, n) : n \in 0..Len(l)} : l \in LineTemplates}

\* What may follow on the wire when n more lines may be sent: whole lines,
\* the last of them possibly without its end and its newline.
RECURSIVE Streams(_)
Streams(n) ==
  IF n = 0 THEN {<<>>}
  ELSE LinePrefixes
       \cup {l \o <<NL>> \o s : l \in LineTemplates, s \in Streams(n - 1)}


\* The text after the last newline of s.
RECURSIVE Partial(_)
Partial(s) ==
  IF IndexOf(s, NL) = 0 THEN s
  ELSE Partial(SubSeq(s, IndexOf(s, NL) + 1, Len(s)))

\* The number of newlines of s.
RECURSIVE CountLines(_)
CountLines(s) ==
  IF IndexOf(s, NL) = 0 THEN 0
  ELSE 1 + CountLines(SubSeq(s, IndexOf(s, NL) + 1, Len(s)))

\* Streams(n) for every n the bound allows.
StreamsTable == [n \in 0..MaxLines |-> Streams(n)]

\* The chunks the transport may deliver next, given what it has delivered:
\* any non-empty stretch that continues the line in progress.
NextChunks(sent) ==
  LET p == Partial(sent)
      left == MaxLines - CountLines(sent) - 1
      lines == IF left < 0 THEN {} ELSE {l \in LineTemplates : IsPrefix(p, l)}
      within == UNION {{SubSeq(l, Len(p) + 1, n) : n \in (Len(p) + 1)..Len(l)} :
                         l \in lines}
      beyond == IF left < 0 THEN {}
                ELSE {SubSeq(l, Len(p) + 1, Len(l)) \o <<NL>> \o s :
                        l \in lines, s \in StreamsTable[left]}
  IN within \cup beyond

---------------------------------------------------------------------------
(* State *)

VARIABLES
  calls,             \* the sendMessage calls in the order they were made; of
                     \* each, where it stands (pc: convInsert, userInsert,
                     \* titleUpdate, fetch, reading, insert, done), the values
                     \* its closure holds, its locals, and whether the Chat
                     \* view that made it is still mounted (live)
  messages,          \* the transcript state of the Chat view
  isLoading,
  isStreaming,
  toasts,            \* the notifications shown, oldest first
  dbMessages,        \* the rows of public.messages
  faults,            \* how many requests of the Chat view have failed
  registered,        \* the ids of auth.users
  user_roles,        \* the rows of public.user_roles: <<user_id, role>>
  currentRole,       \* per session of the Users view, the role useAuth resolved
  rc,                \* per session of the Users view, its handleRoleChange calls
                     \* that wait for the answer to a request
  roleToast,         \* the last toast of a Users view
  roleCalls,         \* how many handleRoleChange calls have passed the guards
  legal_documents,   \* the rows of public.legal_documents, oldest first
  docsCreated,       \* how many rows legal_documents has ever been given
  documents,         \* per signed-in user, the documents state of the Documents view
  docToast,          \* the last toast of a Documents view
  docFetches,        \* per signed-in user, the fetchDocuments requests that
                     \* wait for their answer
  docStale,          \* per signed-in user, how many of these were sent by a
                     \* Documents view that has been unmounted since
  docCalls,          \* per session of a Documents view, its handler calls
                     \* that wait for the answer to their request
  docActions,        \* how many times a Documents view has sent the first
                     \* request of a handler
  dbConversations,   \* the rows of public.conversations, least recently updated first
  convsCreated,      \* how many rows conversations has ever been given
  conversations,     \* the conversations state of the Chat view
  activeConversationId,
  fetches,           \* the conversations whose fetchMessages, sent by the
                     \* mounted Chat view, waits for its answer
  listing,           \* the fetchConversations of the mounted Chat view waits
                     \* for its answer
  chatCalls,         \* the createNewConversation and deleteConversation calls
                     \* that wait for the answer to their request
  userActions,       \* how many handlers of the Chat view have been started
  system_logs,       \* the rows of public.system_logs, oldest first
  logsView           \* per signed-in user, the state of the Logs view

streamVars ==
  <<calls, messages, isLoading, isStreaming, toasts, dbMessages, faults>>
roleVars == <<registered, user_roles, currentRole, rc, roleToast, roleCalls>>
docVars ==
  <<legal_documents, docsCreated, documents, docToast, docFetches, docStale,
    docCalls, docActions>>
chatVars ==
  <<dbConversations, convsCreated, conversations, activeConversationId,
    fetches, listing, chatCalls, userActions>>
logVars == <<system_logs, logsView>>
vars == <<streamVars, roleVars, docVars, chatVars, logVars>>

\* The locals of the first sendMessage call: response.status (0 while there
\* is no response), let buffer, let assistantContent, and, for the
\* properties, everything the transport has delivered, every value the call
\* has handed to setMessages, every content its parser has extracted and
\* whether the parser has read a sentinel line.
pc == calls[1].pc
status == calls[1].status
buffer == calls[1].buffer
assistantContent == calls[1].assistantContent
received == calls[1].received
emitted == calls[1].emitted
deltas == calls[1].deltas
doneSeen == calls[1].doneSeen

\* The parser's state of call k as LineStep takes it.
ParserStateOf(k) ==
  [buffer |-> calls[k].buffer, assistantContent |-> calls[k].assistantContent,
   messages |-> messages, emitted |-> calls[k].emitted,
   deltas |-> calls[k].deltas, doneSeen |-> calls[k].doneSeen,
   lastKind |-> "none", steps |-> 0]

\* The parser's state of the first call.
ParserState == ParserStateOf(1)

\* A handler call whose view has been unmounted: its requests go on, its
\* state setters reach no view.
Unmounted(call) == [call EXCEPT !.live = FALSE]

\* A request is answered: a failure is counted, and there are at most
\* MaxFaults of them.
Fault(failed) ==
  IF failed THEN faults < MaxFaults /\ faults' = faults + 1
  ELSE faults' = faults

---------------------------------------------------------------------------
(* sendMessage from the stream request on *)

\* const conversationId of the first call.
ConversationId == calls[1].conversationId

\* The message call k sends, appended to the transcript before the request.
UserMessageOf(k) == [role |-> "user", content |-> calls[k].content]

\* The message of the first call.
UserMessage == UserMessageOf(1)

\* The transcript the send starts from: an earlier exchange.
PriorTranscripts ==
  {<<[role |-> "user", content |-> <<"p">>],
     [role |-> "assistant", content |-> <<"r">>]>>}

\* A transcript entry as a row of public.messages of conversation id.
RowOf(id, m) == [conversation_id |-> id, role |-> m.role, content |-> m.content]

\* A transcript entry as a row of the conversation of the first call.
Row(m) == RowOf(ConversationId, m)

\* The statuses the endpoint answers with.  A 204 response has no body.
Statuses == {200, 204, 402, 429, 500, 503}

\* response.ok
ResponseOk(code) == code \in 200..299

\* Variant of ErrorMessage: no status is told apart.
ErrorMessageGeneric(code) == "Failed to get response"

\* The message of the Error thrown for a response that is not ok.
ErrorMessage(code) ==
  IF code = 429 THEN "Rate limit exceeded. Please try again later."
  ELSE IF code = 402 THEN "Payment required. Please add credits to continue."
  ELSE "Failed to get response"

\* error.message of the rejection of fetch() or of reader.read(): the text is
\* the runtime's.
TransportErrorText == "Failed to fetch"

\* The values the catch block receives: an Error with its message, or a value
\* that is no Error.
ErrorOf(message) == [isError |-> TRUE, message |-> message]
NotAnError == [isError |-> FALSE, message |-> ""]

\* The values fetch() and reader.read() reject with.
Rejections == {ErrorOf(TransportErrorText), NotAnError}

\* The description of the toast of the catch block:
\* error instanceof Error ? error.message : 'Failed to get AI response'
ToastDescription(error) ==
  IF error.isError THEN error.message ELSE "Failed to get AI response"

\* Variant of Caught: the catch block without the finally block.
CaughtWithoutFinally(k, error, local) ==
  /\ toasts' = Append(toasts, [title |-> "Error",
                               description |-> ToastDescription(error)])
  /\ UNCHANGED <<isLoading, isStreaming>>
  /\ calls' = [calls EXCEPT ![k] = [local EXCEPT !.pc = "done"]]

\* catch, then finally, of call k whose locals are local: the toast, and both
\* flags of the view that made the call reset.
Caught(k, error, local) ==
  /\ toasts' = Append(toasts, [title |-> "Error",
                               description |-> ToastDescription(error)])
  /\ isLoading' = IF local.live THEN FALSE ELSE isLoading
  /\ isStreaming' = IF local.live THEN FALSE ELSE isStreaming
  /\ calls' = [calls EXCEPT ![k] = [local EXCEPT !.pc = "done"]]

\* A sendMessage call as it stands before its first request.
NewCall(at, conversationId, content, first) ==
  [pc |-> at, status |-> 0, buffer |-> <<>>, assistantContent |-> <<>>,
   received |-> <<>>, emitted |-> <<>>, deltas |-> <<>>, doneSeen |-> FALSE,
   conversationId |-> conversationId, content |-> content, first |-> first,
   userStored |-> FALSE, live |-> TRUE]

\* A send of <<"q">> in conversation 1, about to make its stream request: the
\* user message is shown and stored after an earlier exchange.
StreamInit ==
  /\ calls = <<[NewCall("fetch", 1, <<"q">>, FALSE) EXCEPT !.userStored = TRUE]>>
  /\ \E prior \in PriorTranscripts :
       /\ messages = Append(prior, UserMessage)
       /\ dbMessages = [i \in 1..(Len(prior) + 1) |-> Row(Append(prior, UserMessage)[i])]
  /\ isLoading = TRUE
  /\ isStreaming = TRUE
  /\ toasts = <<>>
  /\ faults = 0

\* await fetch(CHAT_URL, ...) of call k resolves; the status is classified and
\* the reader taken.  A response without a body has no reader, and the read
\* loop is not entered.
FetchResponds(k, code, hasBody) ==
  /\ calls[k].pc = "fetch"
  /\ Fault(~ResponseOk(code))
  /\ LET local == [calls[k] EXCEPT !.status = code]
     IN IF ~ResponseOk(code)
        THEN Caught(k, ErrorOf(ErrorMessage(code)), local)
        ELSE /\ calls' = [calls EXCEPT ![k] =
                            [local EXCEPT !.pc = IF hasBody THEN "reading"
                                                 ELSE "insert"]]
             /\ UNCHANGED <<isLoading, isStreaming, toasts>>
  /\ UNCHANGED <<messages, dbMessages, roleVars, docVars, logVars, chatVars>>

\* await fetch(CHAT_URL, ...) of call k rejects.
FetchRejects(k, reason) ==
  /\ calls[k].pc = "fetch"
  /\ Fault(TRUE)
  /\ Caught(k, reason, calls[k])
  /\ UNCHANGED <<messages, dbMessages, roleVars, docVars, logVars, chatVars>>

\* The locals of call k once its parser has reached st.
Parsed(k, st) ==
  [calls[k] EXCEPT !.buffer = st.buffer,
                   !.assistantContent = st.assistantContent,
                   !.emitted = st.emitted, !.deltas = st.deltas,
                   !.doneSeen = st.doneSeen]

\* await reader.read() of call k resolves with a chunk: one pass of the outer
\* loop.  setMessages changes the transcript of the view that made the call.
ReadChunk(k, value) ==
  /\ calls[k].pc = "reading"
  /\ LET st == OnChunk(ParserStateOf(k), value)
     IN /\ calls' = [calls EXCEPT ![k] =
                       [Parsed(k, st) EXCEPT !.received = @ \o value]]
        /\ messages' = IF calls[k].live THEN st.messages ELSE messages
  /\ UNCHANGED <<isLoading, isStreaming, toasts, dbMessages, faults,
                 roleVars, docVars, logVars, chatVars>>

\* Variant of OnDone: what is left in the buffer is parsed as a last line.
OnDoneFlush(st) ==
  IF st.buffer = <<>> THEN st
  ELSE Drain([st EXCEPT !.buffer = st.buffer \o <<NL>>])

\* What the done branch keeps of the parser's state: `if (done) break` leaves
\* the loop with the buffer as it stands.
OnDone(st) == st

\* await reader.read() of call k resolves with done.
ReadDone(k) ==
  /\ calls[k].pc = "reading"
  /\ LET st == OnDone(ParserStateOf(k))
     IN /\ calls' = [calls EXCEPT ![k] = [Parsed(k, st) EXCEPT !.pc = "insert"]]
        /\ messages' = IF calls[k].live THEN st.messages ELSE messages
  /\ UNCHANGED <<isLoading, isStreaming, toasts, dbMessages, faults,
                 roleVars, docVars, logVars, chatVars>>

\* await reader.read() of call k rejects.
ReadRejects(k, reason) ==
  /\ calls[k].pc = "reading"
  /\ Fault(TRUE)
  /\ Caught(k, reason, calls[k])
  /\ UNCHANGED <<messages, dbMessages, roleVars, docVars, logVars, chatVars>>

\* The row of the assistant message saved once the loop is left.
AssistantRow(conversationId, content) ==
  [conversation_id |-> conversationId, role |-> "assistant", content |-> content]

\* await supabase.from('messages').insert(...) of call k resolves, then
\* finally: the request reached the backend or not (transportOk), and the
\* policy let the row in or not (allowed).  The result is not inspected: a
\* failure changes nothing.
InsertAssistant(k, transportOk, allowed) ==
  /\ calls[k].pc = "insert"
  /\ Fault(~transportOk)
  /\ dbMessages' =
       IF transportOk /\ allowed
       THEN Append(dbMessages, AssistantRow(calls[k].conversationId,
                                            calls[k].assistantContent))
       ELSE dbMessages
  /\ isLoading' = IF calls[k].live THEN FALSE ELSE isLoading
  /\ isStreaming' = IF calls[k].live THEN FALSE ELSE isStreaming
  /\ calls' = [calls EXCEPT ![k].pc = "done"]
  /\ UNCHANGED <<messages, toasts, roleVars, docVars, logVars, chatVars>>

\* One send from its stream request on, the endpoint answering with any
\* status and any stream of at most MaxLines lines cut into any chunks.
StreamNext ==
  \/ \E k \in DOMAIN calls, code \in Statuses, hasBody \in BOOLEAN :
       (code = 204 => ~hasBody) /\ FetchResponds(k, code, hasBody)
  \/ \E k \in DOMAIN calls, reason \in Rejections : FetchRejects(k, reason)
  \/ \E k \in DOMAIN calls : \E value \in NextChunks(calls[k].received) :
       ReadChunk(k, value)
  \/ \E k \in DOMAIN calls : ReadDone(k)
  \/ \E k \in DOMAIN calls, reason \in Rejections : ReadRejects(k, reason)
  \/ \E k \in DOMAIN calls, transportOk \in BOOLEAN, allowed \in BOOLEAN :
       InsertAssistant(k, transportOk, allowed)

---------------------------------------------------------------------------
(* Roles: the user_roles table, the sign-up trigger, Users.handleRoleChange *)

\* CREATE TYPE public.app_role
AppRole == {"admin", "legal_analyst", "user"}

\* The accounts: two that an operator has made admins, one that may sign up.
\* The two have the Users view open.
Admins == {"a1", "a2"}
UserIds == Admins \cup {"u1"}
Sessions == Admins

NoRole == "none"
NoToast == [title |-> "", description |-> ""]
\* How many handleRoleChange calls pass the guards.
MaxCalls == 2

\* A handleRoleChange call that waits for the answer to its delete or to its
\* insert; `before` remembers the target's rows when the delete was answered.
Call(at, userId, newRole, before) ==
  [at |-> at, userId |-> userId, newRole |-> newRole, before |-> before]

\* public.has_role(_user_id, _role)
has_role(rows, uid, role) == <<uid, role>> \in rows

\* The roles of a user in the table.
RolesOf(rows, uid) == {r \in AppRole : <<uid, r>> \in rows}

\* public.handle_new_user: the row the trigger inserts for a new account.
handle_new_user(rows, uid) == rows \cup {<<uid, "user">>}

\* DELETE FROM user_roles WHERE user_id = userId, under the policy "Admins
\* can manage all roles": a caller who is no admin sees no row to delete.
DeleteRoles(rows, caller, userId) ==
  IF has_role(rows, caller, "admin")
  THEN {row \in rows : row[1] # userId}
  ELSE rows

\* INSERT INTO user_roles (user_id, role): refused by the policy for a caller
\* who is no admin, and by UNIQUE (user_id, role) for a row that exists.
InsertRoleAllowed(rows, caller, userId, newRole) ==
  /\ has_role(rows, caller, "admin")
  /\ <<userId, newRole>> \notin rows

InsertRole(rows, userId, newRole) == rows \cup {<<userId, newRole>>}

\* The message of the backend's error for a refused insert.
InsertErrorMessage(rows, caller, userId, newRole) ==
  IF ~has_role(rows, caller, "admin")
  THEN "new row violates row-level security policy for table \"user_roles\""
  ELSE IF <<userId, newRole>> \in rows
  THEN "duplicate key value violates unique constraint \"user_roles_user_id_role_key\""
  ELSE "Failed to fetch"

\* user_id UUID REFERENCES auth.users(id): the message of the backend's error
\* for a row that names no account.
ForeignKeyMessage ==
  "insert or update on table \"user_roles\" violates foreign key constraint \"user_roles_user_id_fkey\""

\* AppLayout: the navigation entries and the roles each is shown to.
navItems ==
  << [path |-> "/chat", label |-> "Chat",
      roles |-> {"user", "legal_analyst", "admin"}],
     [path |-> "/documents", label |-> "Documents",
      roles |-> {"legal_analyst", "admin"}],
     [path |-> "/users", label |-> "Users", roles |-> {"admin"}],
     [path |-> "/logs", label |-> "System Logs", roles |-> {"admin"}] >>

\* Variant of visibleNavItems: no entry is filtered out.
visibleNavItemsAll(role) == navItems

\* Variant of visibleNavItems: every resolved role is shown every entry.
visibleNavItemsAnyRole(role) == IF role = NoRole THEN <<>> ELSE navItems

\* navItems.filter((item) => role && item.roles.includes(role))
visibleNavItems(role) ==
  LET shown(item) == role # NoRole /\ role \in item.roles
  IN SelectSeq(navItems, shown)

RolesInit ==
  /\ registered = Admins
  /\ user_roles = {<<a, "admin">> : a \in Admins}
  /\ currentRole = [c \in Sessions |-> "admin"]
  /\ rc = [c \in Sessions |-> EmptyBag]
  /\ roleToast = NoToast
  /\ roleCalls = 0

\* A new account is created: AFTER INSERT ON auth.users runs the trigger.
SignUp(u) ==
  /\ u \notin registered
  /\ registered' = registered \cup {u}
  /\ user_roles' = handle_new_user(user_roles, u)
  /\ UNCHANGED <<currentRole, rc, roleToast, roleCalls, streamVars, docVars,
                 logVars, chatVars>>

\* The session store resolves the role of the signed-in user again from the
\* role table.
ResolveRole(c, r) ==
  /\ c \in registered
  /\ IF RolesOf(user_roles, c) = {} THEN r = NoRole ELSE r \in RolesOf(user_roles, c)
  /\ currentRole' = [currentRole EXCEPT ![c] = r]
  /\ UNCHANGED <<registered, user_roles, rc, roleToast, roleCalls, streamVars,
                 docVars, logVars, chatVars>>

\* Variant of PassesGuards: the target may be the caller.
PassesGuardsAnyTarget(role, c, userId) == role = "admin"

\* The guards of handleRoleChange: if (currentRole !== 'admin') return;
\* if (userId === currentUser?.id) { toast; return }.
PassesGuards(role, c, userId) == role = "admin" /\ userId # c

\* handleRoleChange returns at one of its guards.
RoleChangeRefused(c, userId, newRole) ==
  /\ c \in registered /\ userId \in registered
  /\ ~PassesGuards(currentRole[c], c, userId)
  /\ roleToast' =
       IF currentRole[c] # "admin" THEN roleToast
       ELSE [title |-> "Cannot change own role",
             description |-> "You cannot change your own role."]
  /\ UNCHANGED <<registered, user_roles, currentRole, rc, roleCalls, streamVars,
                 docVars, logVars, chatVars>>

\* handleRoleChange passes its guards and sends the delete request.
RoleChangeCall(c, userId, newRole) ==
  /\ c \in registered /\ userId \in registered
  /\ PassesGuards(currentRole[c], c, userId)
  /\ roleCalls < MaxCalls
  /\ roleCalls' = roleCalls + 1
  /\ rc' = [rc EXCEPT ![c] = @ (+) SetToBag({Call("delete", userId, newRole, {})})]
  /\ UNCHANGED <<registered, user_roles, currentRole, roleToast, streamVars,
                 docVars, logVars, chatVars>>

\* The delete request of a call is answered: the call ends with the error
\* toast or sends the insert request.
RoleChangeDelete(c, userId, newRole, transportOk) ==
  LET call == Call("delete", userId, newRole, {})
  IN /\ BagIn(call, rc[c])
     /\ IF transportOk
        THEN /\ user_roles' = DeleteRoles(user_roles, c, userId)
             /\ rc' = [rc EXCEPT ![c] =
                        (@ (-) SetToBag({call})) (+)
                        SetToBag({Call("insert", userId, newRole,
                                       RolesOf(user_roles, userId))})]
             /\ UNCHANGED roleToast
        ELSE /\ roleToast' = [title |-> "Error updating role",
                               description |-> "Failed to fetch"]
             /\ rc' = [rc EXCEPT ![c] = @ (-) SetToBag({call})]
             /\ UNCHANGED user_roles
     /\ UNCHANGED <<registered, currentRole, roleCalls, streamVars, docVars,
                    logVars, chatVars>>

\* The insert request of a call is answered, and the call ends: the row is
\* stored when the request arrives, the policy and the unique constraint let
\* it in, and the account it names exists.  fetchUsers, started on success,
\* only reads the tables.
RoleChangeInsert(c, call, transportOk) ==
  /\ BagIn(call, rc[c])
  /\ call.at = "insert"
  /\ LET userId == call.userId
         newRole == call.newRole
         ok == /\ transportOk
               /\ InsertRoleAllowed(user_roles, c, userId, newRole)
               /\ userId \in registered
     IN /\ user_roles' = IF ok THEN InsertRole(user_roles, userId, newRole)
                         ELSE user_roles
        /\ roleToast' =
             IF ok
             THEN [title |-> "Role updated",
                   description |->
                     "User role has been changed to " \o newRole \o "."]
             ELSE [title |-> "Error updating role",
                   description |->
                     IF ~transportOk THEN "Failed to fetch"
                     ELSE IF InsertRoleAllowed(user_roles, c, userId, newRole)
                     THEN ForeignKeyMessage
                     ELSE InsertErrorMessage(user_roles, c, userId, newRole)]
  /\ rc' = [rc EXCEPT ![c] = @ (-) SetToBag({call})]
  /\ UNCHANGED <<registered, currentRole, roleCalls, streamVars, docVars,
                 logVars, chatVars>>

\* The calls of a session that wait for the answer to their insert.
InsertsOf(c) == {call \in BagToSet(rc[c]) : call.at = "insert"}

RolesNext ==
  \/ \E u \in UserIds : SignUp(u)
  \/ \E c \in Sessions, r \in AppRole \cup {NoRole} : ResolveRole(c, r)
  \/ \E c \in Sessions, userId \in UserIds, newRole \in AppRole :
       RoleChangeRefused(c, userId, newRole)
  \/ \E c \in Sessions, userId \in UserIds, newRole \in AppRole :
       RoleChangeCall(c, userId, newRole)
  \/ \E c \in Sessions, userId \in UserIds, newRole \in AppRole,
        transportOk \in BOOLEAN : RoleChangeDelete(c, userId, newRole, transportOk)
  \/ \E c \in Sessions, transportOk \in BOOLEAN :
       \E call \in InsertsOf(c) : RoleChangeInsert(c, call, transportOk)

---------------------------------------------------------------------------
(* Documents: the legal_documents table and the handlers of the Documents view *)

\* The users who open the Documents view: a2, whose role admin a1 changes
\* and who uses its handlers, the legal_analyst l1 and the plain user u1.
Viewers == {"a2", "l1", "u1"}
DocSessions == {"a2"}

\* SELECT policy "All authenticated users can view validated documents".
CanViewDocumentStaffOnly(rows, uid, d) ==
  \/ d.validated
  \/ has_role(rows, uid, "admin")
  \/ has_role(rows, uid, "legal_analyst")

CanViewDocument(rows, uid, d) ==
  \/ d.validated
  \/ d.uploaded_by = uid
  \/ has_role(rows, uid, "admin")
  \/ has_role(rows, uid, "legal_analyst")

\* INSERT policy "Admins and analysts can insert documents".
CanInsertDocument(rows, uid) ==
  has_role(rows, uid, "admin") \/ has_role(rows, uid, "legal_analyst")

\* UPDATE policy "Admins and analysts can update documents": without the
\* role the update sees no row and changes none.
CanUpdateDocumentAnyone(rows, uid) == TRUE

CanUpdateDocument(rows, uid) ==
  has_role(rows, uid, "admin") \/ has_role(rows, uid, "legal_analyst")

\* DELETE policy "Admins can delete documents": without the role the delete
\* sees no row and removes none.
CanDeleteDocument(rows, uid) == has_role(rows, uid, "admin")

\* The sequence in the opposite order.
Reverse(seq) == [i \in 1..Len(seq) |-> seq[Len(seq) + 1 - i]]

\* select('*').order('created_at', { ascending: false }) as uid sees it.
SelectDocuments(docs, rows, uid) ==
  LET visible(d) == CanViewDocument(rows, uid, d)
  IN Reverse(SelectSeq(docs, visible))

\* fetchDocuments of user u: setDocuments(data).
Fetched(u, docs, rows) ==
  [documents EXCEPT ![u] = SelectDocuments(docs, rows, u)]

\* validated: role === 'admin'
UploadValidatedAlways(role) == TRUE

UploadValidated(role) == role = "admin"

\* The row handleUpload inserts; validated_by is left to its default.
UploadRow(id, uid, role) ==
  [id |-> id, uploaded_by |-> uid, validated |-> UploadValidated(role),
   validated_by |-> ""]

\* update({ validated: true, validated_by }).eq('id', id), as uid.
UpdateValidated(docs, rows, uid, id) ==
  [i \in 1..Len(docs) |->
     IF docs[i].id = id /\ CanUpdateDocument(rows, uid)
     THEN [docs[i] EXCEPT !.validated = TRUE, !.validated_by = uid]
     ELSE docs[i]]

\* delete().eq('id', id), as uid.
DeleteDocument(docs, rows, uid, id) ==
  LET kept(d) == ~(d.id = id /\ CanDeleteDocument(rows, uid))
  IN SelectSeq(docs, kept)

DocIds == 1..MaxDocs

\* Largest number of handler calls that send a first request while the
\* Documents views are open: the calls of the views and the handleRoleChange
\* calls of admin a1 together.
MaxSteps == 4

\* fetchDocuments is called by user u: its select is sent.
FetchStarted(u) == [docFetches EXCEPT ![u] = @ + 1]

DocsInit ==
  /\ legal_documents = <<>>
  /\ docsCreated = 0
  /\ documents = [u \in Viewers |-> <<>>]
  /\ docToast = NoToast
  /\ docFetches = [u \in Viewers |-> 0]
  /\ docStale = [u \in Viewers |-> 0]
  /\ docCalls = [c \in DocSessions |-> EmptyBag]
  /\ docActions = 0

\* The accounts of the document catalogue: admin a1, a2 and l1 whom a1 has
\* made legal_analysts, and u1 who has signed up.  a2 has the Documents view
\* open with its role resolved.
DocsRoles ==
  /\ registered = {"a1", "a2", "l1", "u1"}
  /\ user_roles = {<<"a1", "admin">>, <<"a2", "legal_analyst">>,
                   <<"l1", "legal_analyst">>, <<"u1", "user">>}
  /\ currentRole = [c \in Sessions |-> IF c = "a2" THEN "legal_analyst" ELSE "admin"]
  /\ rc = [c \in Sessions |-> EmptyBag]
  /\ roleToast = NoToast
  /\ roleCalls = 0

\* The Documents view of u is mounted: documents starts as [], and
\* fetchDocuments sends its select.  The requests and the handler calls of
\* the view that was there before run on without a view.
FetchDocuments(u) ==
  /\ u \in registered
  /\ docActions + roleCalls < MaxSteps
  /\ docActions < MaxActions
  /\ docActions' = docActions + 1
  /\ documents' = [documents EXCEPT ![u] = <<>>]
  /\ docStale' = [docStale EXCEPT ![u] = docFetches[u]]
  /\ docFetches' = FetchStarted(u)
  /\ docCalls' = [c \in DocSessions |->
                    IF c = u THEN BagOfAll(Unmounted, docCalls[c])
                    ELSE docCalls[c]]
  /\ UNCHANGED <<legal_documents, docsCreated, docToast, roleVars, streamVars,
                 chatVars, logVars>>

\* The select of a fetchDocuments of u is answered: setDocuments(data), or
\* the error is logged and the list stays.  The answer to a select of an
\* unmounted view (stale) sets nothing.
DocumentsFetched(u, stale, transportOk) ==
  /\ IF stale THEN docStale[u] > 0 ELSE docFetches[u] > docStale[u]
  /\ docFetches' = [docFetches EXCEPT ![u] = @ - 1]
  /\ docStale' = [docStale EXCEPT ![u] = IF stale THEN @ - 1 ELSE @]
  /\ documents' = IF transportOk /\ ~stale
                  THEN Fetched(u, legal_documents, user_roles)
                  ELSE documents
  /\ UNCHANGED <<legal_documents, docsCreated, docToast, docCalls, docActions,
                 roleVars, streamVars, chatVars, logVars>>

\* handleUpload with a form that lacks its title or its content.
UploadMissingFields(c) ==
  /\ c \in registered
  /\ docToast' = [title |-> "Missing required fields",
                  description |-> "Please fill in title and content."]
  /\ UNCHANGED <<legal_documents, docsCreated, documents, docFetches,
                 docStale, docCalls, docActions, roleVars, streamVars,
                 chatVars, logVars>>

\* A handler call of a Documents view that waits for the answer to its
\* request, with the role of useAuth it read when it was called; live while
\* the view that made it is mounted.
DocCall(op, id, role) == [op |-> op, id |-> id, role |-> role, live |-> TRUE]

\* fetchDocuments() at the end of a handler call: its select is sent, by a
\* view that may have been unmounted.
FetchAfter(c, call) ==
  /\ docFetches' = FetchStarted(c)
  /\ docStale' = [docStale EXCEPT ![c] = IF call.live THEN @ ELSE @ + 1]

\* The handler call is started: its request is sent.
CallStarted(c, call) == [docCalls EXCEPT ![c] = @ (+) SetToBag({call})]

\* The request of the handler call is answered.
CallAnswered(c, call) == [docCalls EXCEPT ![c] = @ (-) SetToBag({call})]

\* The calls of a session that wait for the answer, of one handler.
CallsOf(c, op) == {call \in BagToSet(docCalls[c]) : call.op = op}

\* How many handleUpload calls of a session wait for the answer.
UploadsWaiting(c) ==
  LET RECURSIVE Sum(_)
      Sum(S) == IF S = {} THEN 0
                ELSE LET call == CHOOSE x \in S : TRUE
                     IN CopiesIn(call, docCalls[c]) + Sum(S \ {call})
  IN Sum(CallsOf(c, "upload"))

\* handleUpload is called with a filled form: validated is computed from the
\* role, and the insert is sent.
UploadCall(c) ==
  /\ c \in registered
  /\ docsCreated + UploadsWaiting(c) < MaxDocs
  /\ docActions + roleCalls < MaxSteps
  /\ docActions < MaxActions
  /\ docActions' = docActions + 1
  /\ docCalls' = CallStarted(c, DocCall("upload", 0, currentRole[c]))
  /\ UNCHANGED <<legal_documents, docsCreated, documents, docToast, docFetches,
                 docStale, roleVars, streamVars, chatVars, logVars>>

\* The insert of a handleUpload call is answered: the toast; on success
\* fetchDocuments is called and not awaited.
HandleUpload(c, call, transportOk) ==
  /\ BagIn(call, docCalls[c])
  /\ call.op = "upload"
  /\ docCalls' = CallAnswered(c, call)
  /\ IF transportOk /\ CanInsertDocument(user_roles, c)
     THEN /\ legal_documents' =
               Append(legal_documents, UploadRow(docsCreated + 1, c, call.role))
          /\ docsCreated' = docsCreated + 1
          /\ docToast' =
               [title |-> "Document uploaded",
                description |->
                  IF call.role = "admin"
                  THEN "Document has been added and validated."
                  ELSE "Document has been added and is pending validation."]
          /\ FetchAfter(c, call)
     ELSE /\ docToast' =
               [title |-> "Upload failed",
                description |->
                  IF transportOk
                  THEN "new row violates row-level security policy for table \"legal_documents\""
                  ELSE "Failed to fetch"]
          /\ UNCHANGED <<legal_documents, docsCreated, docFetches, docStale>>
  /\ UNCHANGED <<documents, docActions, roleVars, streamVars, chatVars,
                 logVars>>

\* handleValidate and handleDelete return at their guard.
DocumentActionRefused(c, op) ==
  /\ c \in registered
  /\ \/ op = "validate" /\ currentRole[c] \notin {"admin", "legal_analyst"}
     \/ op = "delete" /\ currentRole[c] # "admin"
  /\ UNCHANGED <<docVars, logVars, roleVars, streamVars, chatVars>>

\* handleValidate is called and passes its guard: the update is sent.
ValidateCall(c, id) ==
  /\ c \in registered
  /\ currentRole[c] \in {"admin", "legal_analyst"}
  /\ docActions + roleCalls < MaxSteps
  /\ docActions < MaxActions
  /\ docActions' = docActions + 1
  /\ docCalls' = CallStarted(c, DocCall("validate", id, currentRole[c]))
  /\ UNCHANGED <<legal_documents, docsCreated, documents, docToast, docFetches,
                 docStale, roleVars, streamVars, chatVars, logVars>>

\* The update of a handleValidate call is answered: the toast; on success
\* fetchDocuments is called and not awaited.
HandleValidate(c, call, transportOk) ==
  /\ BagIn(call, docCalls[c])
  /\ call.op = "validate"
  /\ docCalls' = CallAnswered(c, call)
  /\ IF transportOk
     THEN /\ legal_documents' =
               UpdateValidated(legal_documents, user_roles, c, call.id)
          /\ docToast' =
               [title |-> "Document validated",
                description |-> "The document is now available for AI responses."]
          /\ FetchAfter(c, call)
     ELSE /\ docToast' = [title |-> "Validation failed",
                          description |-> "Failed to fetch"]
          /\ UNCHANGED <<legal_documents, docFetches, docStale>>
  /\ UNCHANGED <<docsCreated, documents, docActions, roleVars, streamVars,
                 chatVars, logVars>>

\* handleDelete is called and passes its guard: the delete is sent.
DeleteCall(c, id) ==
  /\ c \in registered
  /\ currentRole[c] = "admin"
  /\ docActions + roleCalls < MaxSteps
  /\ docActions < MaxActions
  /\ docActions' = docActions + 1
  /\ docCalls' = CallStarted(c, DocCall("delete", id, currentRole[c]))
  /\ UNCHANGED <<legal_documents, docsCreated, documents, docToast, docFetches,
                 docStale, roleVars, streamVars, chatVars, logVars>>

\* The delete of a handleDelete call is answered: the toast; on success
\* fetchDocuments is called and not awaited.
HandleDelete(c, call, transportOk) ==
  /\ BagIn(call, docCalls[c])
  /\ call.op = "delete"
  /\ docCalls' = CallAnswered(c, call)
  /\ IF transportOk
     THEN /\ legal_documents' =
               DeleteDocument(legal_documents, user_roles, c, call.id)
          /\ docToast' = [title |-> "Document deleted", description |-> ""]
          /\ FetchAfter(c, call)
     ELSE /\ docToast' = [title |-> "Delete failed",
                          description |-> "Failed to fetch"]
          /\ UNCHANGED <<legal_documents, docFetches, docStale>>
  /\ UNCHANGED <<docsCreated, documents, docActions, roleVars, streamVars,
                 chatVars, logVars>>

\* The Documents views, with admin a1 changing the role of a2 and the
\* sessions resolving their roles again.
DocsNext ==
  \/ \E u \in Viewers : FetchDocuments(u)
  \/ \E u \in Viewers, stale \in BOOLEAN, transportOk \in BOOLEAN :
       DocumentsFetched(u, stale, transportOk)
  \/ \E c \in DocSessions : UploadMissingFields(c)
  \/ \E c \in DocSessions : UploadCall(c)
  \/ \E c \in DocSessions, transportOk \in BOOLEAN :
       \E call \in CallsOf(c, "upload") : HandleUpload(c, call, transportOk)
  \/ \E c \in DocSessions, op \in {"validate", "delete"} : DocumentActionRefused(c, op)
  \/ \E c \in DocSessions, id \in DocIds : ValidateCall(c, id)
  \/ \E c \in DocSessions, transportOk \in BOOLEAN :
       \E call \in CallsOf(c, "validate") : HandleValidate(c, call, transportOk)
  \/ \E c \in DocSessions, id \in DocIds : DeleteCall(c, id)
  \/ \E c \in DocSessions, transportOk \in BOOLEAN :
       \E call \in CallsOf(c, "delete") : HandleDelete(c, call, transportOk)
  \/ \E r \in AppRole \cup {NoRole} : ResolveRole("a2", r)
  \/ \E newRole \in AppRole :
       /\ rc["a1"] = EmptyBag
       /\ docActions + roleCalls < MaxSteps
       /\ RoleChangeCall("a1", "a2", newRole)
  \/ \E newRole \in AppRole : RoleChangeDelete("a1", "a2", newRole, TRUE)
  \/ \E call \in InsertsOf("a1") : RoleChangeInsert("a1", call, TRUE)

---------------------------------------------------------------------------
(* Logs: the system log, its policies, and the Logs view *)

\* user_id NULL.
NoUser == ""

\* .limit(100)
LogLimit == 100

\* The users with a Logs view open.
LogViewers == {"a2", "u1"}

\* Policy "Admins can view all logs".
CanViewLogs(rows, uid) == has_role(rows, uid, "admin")

\* Policy "System can insert logs", dropped by the second migration.
CanInsertLogAnyone(uid, row) == TRUE

\* Policy "Users can insert their own logs": WITH CHECK (auth.uid() =
\* user_id); a NULL user_id does not pass.
CanInsertLog(uid, row) == row.user_id # NoUser /\ uid = row.user_id

\* The commands system_logs has a policy for, after both migrations: FOR
\* SELECT ("Admins can view all logs") and FOR INSERT ("Users can insert
\* their own logs").
LogPolicyCommands == {"SELECT", "INSERT"}

\* system_logs has row security enabled: a request reaches a row only through
\* a policy for its command.  There is none FOR UPDATE and none FOR DELETE.
CanChangeLog(rows, uid, command) == command \in LogPolicyCommands

\* select('*') on system_logs as uid sees it.
SelectLogs(logs, rows, uid) == IF CanViewLogs(rows, uid) THEN logs ELSE <<>>

\* What fetchLogs gives setLogs:
\* order('created_at', { ascending: false }).limit(100).
FetchedLogs(logs, rows, uid) ==
  LET data == Reverse(SelectLogs(logs, rows, uid))
  IN SubSeq(data, 1, IF Len(data) < LogLimit THEN Len(data) ELSE LogLimit)

\* update({ action }).eq('id', id) on system_logs as uid.
UpdateLogRows(logs, rows, uid, id, action) ==
  [i \in 1..Len(logs) |->
     IF logs[i].id = id /\ CanChangeLog(rows, uid, "UPDATE")
     THEN [logs[i] EXCEPT !.action = action]
     ELSE logs[i]]

\* delete().eq('id', id) on system_logs as uid.
DeleteLogRows(logs, rows, uid, id) ==
  LET kept(row) == ~(row.id = id /\ CanChangeLog(rows, uid, "DELETE"))
  IN SelectSeq(logs, kept)

\* user_id UUID REFERENCES auth.users(id) ON DELETE SET NULL: the rows once
\* the account u is removed.
LogsWithout(logs, u) ==
  [i \in 1..Len(logs) |->
     IF logs[i].user_id = u THEN [logs[i] EXCEPT !.user_id = NoUser]
     ELSE logs[i]]

\* The Logs view of c as useState makes it: logs [] and isLoading true.
\* fetching tells that the fetchLogs of the mounted view waits for its
\* answer.
NewLogsView == [logs |-> <<>>, isLoading |-> TRUE, fetching |-> FALSE]

\* No row, and no Logs view opened.
LogsInit ==
  /\ system_logs = <<>>
  /\ logsView = [c \in LogViewers |-> NewLogsView]

\* The Logs view of c is mounted: the state is that of useState, and the
\* effect calls fetchLogs, which sends the select.  A select that a view
\* mounted before still waits for is answered to that view, which sets the
\* state of no mounted view: it is not followed further.
FetchLogs(c) ==
  /\ c \in registered
  /\ logsView' = [logsView EXCEPT ![c] = [NewLogsView EXCEPT !.fetching = TRUE]]
  /\ UNCHANGED <<system_logs, streamVars, roleVars, docVars, chatVars>>

\* The select of fetchLogs of the mounted view of c is answered.  On an error
\* the rows shown stay.
LogsFetched(c, transportOk) ==
  /\ logsView[c].fetching
  /\ logsView' =
       [logsView EXCEPT ![c] =
          [logs |-> IF transportOk
                    THEN FetchedLogs(system_logs, user_roles, c)
                    ELSE logsView[c].logs,
           isLoading |-> FALSE, fetching |-> FALSE]]
  /\ UNCHANGED <<system_logs, streamVars, roleVars, docVars, chatVars>>

\* A signed-in user inserts a row with the given user_id.  by records, for
\* the properties, who made the request.
InsertLog(caller, user_id) ==
  /\ caller \in registered
  /\ Len(system_logs) < MaxLogs
  /\ LET row == [id |-> Len(system_logs) + 1, user_id |-> user_id,
                 action |-> "create", by |-> caller]
     IN system_logs' = IF CanInsertLog(caller, row)
                       THEN Append(system_logs, row)
                       ELSE system_logs
  /\ UNCHANGED <<logsView, streamVars, roleVars, docVars, chatVars>>

\* A signed-in user sends an update or a delete of a row.
ChangeLog(caller, op, id) ==
  /\ caller \in registered
  /\ id \in 1..Len(system_logs)
  /\ system_logs' =
       IF op = "update"
       THEN UpdateLogRows(system_logs, user_roles, caller, id, "delete")
       ELSE DeleteLogRows(system_logs, user_roles, caller, id)
  /\ UNCHANGED <<logsView, streamVars, roleVars, docVars, chatVars>>

---------------------------------------------------------------------------
(* Chat: conversations, their messages, and sendMessage up to the stream *)

\* The user of the Chat view, and another account.
ChatUser == "a1"
OtherUser == "a2"

\* activeConversationId === null; ids are positive.
Null == 0

\* Message texts, one token a character: 50 and 51 characters.
Fifty == [i \in 1..50 |-> "x"]
FiftyOne == [i \in 1..51 |-> "x"]
Contents == {Fifty, FiftyOne}

\* content.slice(0, 50)
Slice50(content) ==
  SubSeq(content, 1, IF Len(content) < 50 THEN Len(content) ELSE 50)

\* content.slice(0, 50) + '...': the title of a conversation that sendMessage
\* creates.
TitleAtCreation(content) == Slice50(content) \o <<"...">>

\* content.slice(0, 50) + (content.length > 50 ? '...' : '')
TitleOfFirstMessage(content) ==
  Slice50(content) \o (IF Len(content) > 50 THEN <<"...">> ELSE <<>>)

\* The title createNewConversation gives.
NewConversationTitle == <<"New Conversation">>

\* Policies "Users can ... their own conversations": USING / WITH CHECK
\* (auth.uid() = user_id).
OwnsConversationAnyone(uid, row) == TRUE

OwnsConversation(uid, row) == row.user_id = uid

\* select('*') on conversations as uid sees it.
SelectConversations(rows, uid) ==
  LET own(row) == OwnsConversation(uid, row)
  IN SelectSeq(rows, own)

\* insert({ user_id, title }).select().single() as uid: the rows afterwards.
InsertConversation(rows, uid, row) ==
  IF OwnsConversation(uid, row) THEN Append(rows, row) ELSE rows

\* update({ title }).eq('id', id) as uid; the trigger sets updated_at, so the
\* row becomes the most recently updated one.
UpdateConversationTitle(rows, uid, id, title) ==
  LET hit(row) == row.id = id /\ OwnsConversation(uid, row)
      miss(row) == ~hit(row)
      hits == SelectSeq(rows, hit)
  IN SelectSeq(rows, miss)
       \o [i \in 1..Len(hits) |-> [hits[i] EXCEPT !.title = title]]

\* delete().eq('id', id) on conversations as uid.
DeleteConversationRows(rows, uid, id) ==
  LET kept(row) == ~(row.id = id /\ OwnsConversation(uid, row))
  IN SelectSeq(rows, kept)

\* messages.conversation_id REFERENCES conversations(id) ON DELETE CASCADE.
Cascade(msgs, rows) ==
  LET live(m) == \E i \in 1..Len(rows) : rows[i].id = m.conversation_id
  IN SelectSeq(msgs, live)

\* Variant of CanInsertMessage: every insert is let in.
CanInsertMessageAlways(rows, uid, conversation_id) == TRUE

\* Policy "Users can insert messages in their conversations".
CanInsertMessage(rows, uid, conversation_id) ==
  \E i \in 1..Len(rows) :
    rows[i].id = conversation_id /\ rows[i].user_id = uid

\* error.message of a messages insert that the policy refuses.
MessageInsertError ==
  "new row violates row-level security policy for table \"messages\""

\* Policy "Users can view messages in their conversations", with
\* eq('conversation_id', id).order('created_at', { ascending: true }).
SelectMessages(msgs, rows, uid, id) ==
  LET seen(m) ==
        /\ m.conversation_id = id
        /\ \E i \in 1..Len(rows) :
             rows[i].id = m.conversation_id /\ rows[i].user_id = uid
  IN SelectSeq(msgs, seen)

\* A row of conversations as the Chat view keeps it.
Listed(row) == [id |-> row.id, title |-> row.title]

\* What fetchConversations gives setConversations:
\* eq('user_id', user.id).order('updated_at', { ascending: false }).
FetchedConversations(rows, uid) ==
  LET mine(row) == row.user_id = uid
      data == Reverse(SelectSeq(SelectConversations(rows, uid), mine))
  IN [i \in 1..Len(data) |-> Listed(data[i])]

\* What fetchMessages gives setMessages.
FetchedMessages(msgs, rows, uid, id) ==
  LET data == SelectMessages(msgs, rows, uid, id)
  IN [i \in 1..Len(data) |-> [role |-> data[i].role, content |-> data[i].content]]

\* useEffect(..., [activeConversationId]) once activeConversationId is set to
\* id by the mounted view: a change to an id sends a fetchMessages for it.
ActiveSetTo(id) ==
  /\ activeConversationId' = id
  /\ fetches' = IF id # Null /\ id # activeConversationId
                THEN fetches (+) SetToBag({id})
                ELSE fetches

\* The same effect on the transcript msgs: a change to null runs
\* setMessages([]).
ClearedWhenNull(id, msgs) ==
  IF id = Null /\ id # activeConversationId THEN <<>> ELSE msgs

\* The state of the chat during the send StreamInit describes: the
\* conversation of ChatUser that holds the earlier exchange.
ChatMidSend ==
  /\ dbConversations = <<[id |-> 1, user_id |-> ChatUser,
                          title |-> TitleOfFirstMessage(<<"p">>)]>>
  /\ convsCreated = 1
  /\ conversations = <<[id |-> 1, title |-> TitleOfFirstMessage(<<"p">>)]>>
  /\ activeConversationId = 1
  /\ fetches = EmptyBag
  /\ listing = FALSE
  /\ chatCalls = EmptyBag
  /\ userActions = 1

\* The Chat view of ChatUser, mounted, its list fetched, with no call made;
\* OtherUser has a conversation with one exchange.
ChatStart ==
  /\ calls = <<>>
  /\ messages = <<>>
  /\ isLoading = FALSE
  /\ isStreaming = FALSE
  /\ toasts = <<>>
  /\ faults = 0
  /\ dbMessages = <<[conversation_id |-> 1, role |-> "user", content |-> <<"p">>],
                    [conversation_id |-> 1, role |-> "assistant", content |-> <<"r">>]>>
  /\ dbConversations = <<[id |-> 1, user_id |-> OtherUser,
                          title |-> TitleOfFirstMessage(<<"p">>)]>>
  /\ convsCreated = 1
  /\ conversations = <<>>
  /\ activeConversationId = Null
  /\ fetches = EmptyBag
  /\ listing = FALSE
  /\ chatCalls = EmptyBag
  /\ userActions = 0
  /\ RolesInit
  /\ DocsInit
  /\ LogsInit

\* setMessages((prev) => [...prev, userMessage]); setIsLoading(true)
AddOptimistically(m) ==
  /\ messages' = Append(messages, m)
  /\ isLoading' = TRUE

\* sendMessage is called: the call keeps the activeConversationId and the
\* messages of the render it was made in; with an active conversation the
\* user message is shown at once.  Nothing in the handler waits for an
\* earlier call to end.
SendStart(content) ==
  /\ userActions < MaxActions
  /\ userActions' = userActions + 1
  /\ calls' = Append(calls,
                     NewCall(IF activeConversationId = Null THEN "convInsert"
                             ELSE "userInsert",
                             activeConversationId, content, messages = <<>>))
  /\ IF activeConversationId = Null
     THEN UNCHANGED <<messages, isLoading>>
     ELSE AddOptimistically([role |-> "user", content |-> content])
  /\ UNCHANGED <<isStreaming, toasts, dbMessages, faults, dbConversations,
                 convsCreated, conversations, activeConversationId, fetches,
                 listing, chatCalls, roleVars, docVars, logVars>>

\* The insert of the conversation that call k of sendMessage creates
\* resolves.
SendConvInsert(k, transportOk) ==
  /\ calls[k].pc = "convInsert"
  /\ Fault(~transportOk)
  /\ IF transportOk
     THEN LET data == [id |-> convsCreated + 1, user_id |-> ChatUser,
                       title |-> TitleAtCreation(calls[k].content)]
          IN /\ dbConversations' = InsertConversation(dbConversations, ChatUser, data)
             /\ convsCreated' = convsCreated + 1
             /\ calls' = [calls EXCEPT ![k].conversationId = data.id,
                                       ![k].pc = "userInsert"]
             /\ IF calls[k].live
                THEN /\ conversations' = <<Listed(data)>> \o conversations
                     /\ ActiveSetTo(data.id)
                     /\ AddOptimistically(UserMessageOf(k))
                ELSE UNCHANGED <<conversations, activeConversationId, fetches,
                                 messages, isLoading>>
             /\ UNCHANGED toasts
     ELSE /\ toasts' = Append(toasts, [title |-> "Error",
                                       description |-> "Failed to create conversation"])
          /\ calls' = [calls EXCEPT ![k].pc = "done"]
          /\ UNCHANGED <<dbConversations, convsCreated, conversations,
                         activeConversationId, fetches, messages, isLoading>>
  /\ UNCHANGED <<isStreaming, dbMessages, listing, chatCalls, userActions,
                 roleVars, docVars, logVars>>

\* if (messages.length === 0): the request that follows the insert of the
\* user message.
AfterUserInsert(first) == IF first THEN "titleUpdate" ELSE "fetch"

\* The insert of the user message of call k resolves; its result is not
\* inspected.  userStored records, for the properties, whether the row was
\* stored.
SendUserInsert(k, transportOk) ==
  /\ calls[k].pc = "userInsert"
  /\ Fault(~transportOk)
  /\ LET accepted ==
           /\ transportOk
           /\ CanInsertMessage(dbConversations, ChatUser, calls[k].conversationId)
     IN /\ dbMessages' =
             IF accepted
             THEN Append(dbMessages, RowOf(calls[k].conversationId, UserMessageOf(k)))
             ELSE dbMessages
        /\ calls' = [calls EXCEPT ![k].userStored = accepted,
                                  ![k].pc = AfterUserInsert(calls[k].first)]
  /\ isStreaming' = IF ~calls[k].first /\ calls[k].live THEN TRUE
                    ELSE isStreaming
  /\ UNCHANGED <<messages, isLoading, toasts, chatVars, roleVars, docVars,
                 logVars>>

\* The update of the title of call k resolves; its result is not inspected,
\* and the local list is updated whatever it was.
SendTitleUpdate(k, transportOk) ==
  /\ calls[k].pc = "titleUpdate"
  /\ Fault(~transportOk)
  /\ dbConversations' =
       IF transportOk
       THEN UpdateConversationTitle(dbConversations, ChatUser,
                                    calls[k].conversationId,
                                    TitleOfFirstMessage(calls[k].content))
       ELSE dbConversations
  /\ conversations' =
       IF calls[k].live
       THEN [i \in 1..Len(conversations) |->
               IF conversations[i].id = calls[k].conversationId
               THEN [conversations[i] EXCEPT
                       !.title = TitleOfFirstMessage(calls[k].content)]
               ELSE conversations[i]]
       ELSE conversations
  /\ calls' = [calls EXCEPT ![k].pc = "fetch"]
  /\ isStreaming' = IF calls[k].live THEN TRUE ELSE isStreaming
  /\ UNCHANGED <<messages, isLoading, toasts, dbMessages, convsCreated,
                 activeConversationId, fetches, listing, chatCalls,
                 userActions, roleVars, docVars, logVars>>

\* A call of createNewConversation or of deleteConversation(id) that waits
\* for the answer to its request: active is the activeConversationId and
\* first the conversations[0]?.id || null of the render it was made in.
ChatCall(op, id, active, first) ==
  [op |-> op, id |-> id, active |-> active, first |-> first, live |-> TRUE]

\* The waiting calls of a handler.
ChatCallsOf(op) == {call \in BagToSet(chatCalls) : call.op = op}

\* createNewConversation is called: the insert is sent.
CreateConversationCall ==
  /\ userActions < MaxActions
  /\ userActions' = userActions + 1
  /\ chatCalls' = chatCalls (+) SetToBag({ChatCall("create", Null, Null, Null)})
  /\ UNCHANGED <<streamVars, dbConversations, convsCreated, conversations,
                 activeConversationId, fetches, listing, roleVars, docVars,
                 logVars>>

\* The insert of createNewConversation resolves.
CreateNewConversation(call, transportOk) ==
  /\ call \in ChatCallsOf("create")
  /\ Fault(~transportOk)
  /\ chatCalls' = chatCalls (-) SetToBag({call})
  /\ IF transportOk
     THEN LET data == [id |-> convsCreated + 1, user_id |-> ChatUser,
                       title |-> NewConversationTitle]
          IN /\ dbConversations' = InsertConversation(dbConversations, ChatUser, data)
             /\ convsCreated' = convsCreated + 1
             /\ IF call.live
                THEN /\ conversations' = <<Listed(data)>> \o conversations
                     /\ ActiveSetTo(data.id)
                     /\ messages' = <<>>
                ELSE UNCHANGED <<conversations, activeConversationId, fetches,
                                 messages>>
             /\ UNCHANGED toasts
     ELSE /\ toasts' = Append(toasts, [title |-> "Error",
                                       description |-> "Failed to create conversation"])
          /\ UNCHANGED <<dbConversations, convsCreated, conversations,
                         activeConversationId, fetches, messages>>
  /\ UNCHANGED <<calls, isLoading, isStreaming, dbMessages, listing,
                 userActions, roleVars, docVars, logVars>>

\* deleteConversation(id) is called for an entry of the list: the delete is
\* sent.
DeleteConversationCall(id) ==
  /\ \E i \in 1..Len(conversations) : conversations[i].id = id
  /\ userActions < MaxActions
  /\ userActions' = userActions + 1
  /\ chatCalls' =
       chatCalls (+) SetToBag({ChatCall("delete", id, activeConversationId,
                                        conversations[1].id)})
  /\ UNCHANGED <<streamVars, dbConversations, convsCreated, conversations,
                 activeConversationId, fetches, listing, roleVars, docVars,
                 logVars>>

\* The delete of deleteConversation resolves.  A delete that meets no row is
\* no error.  The entry is filtered out of the list as it is now;
\* activeConversationId and conversations[0] are those of the call.
DeleteConversation(call, transportOk) ==
  /\ call \in ChatCallsOf("delete")
  /\ Fault(~transportOk)
  /\ chatCalls' = chatCalls (-) SetToBag({call})
  /\ IF transportOk
     THEN /\ dbConversations' =
               DeleteConversationRows(dbConversations, ChatUser, call.id)
          /\ dbMessages' = Cascade(dbMessages, dbConversations')
          /\ IF call.live
             THEN /\ LET others(c) == c.id # call.id
                     IN conversations' = SelectSeq(conversations, others)
                  /\ IF call.active = call.id
                     THEN /\ ActiveSetTo(call.first)
                          /\ messages' = ClearedWhenNull(call.first, messages)
                     ELSE UNCHANGED <<activeConversationId, fetches, messages>>
             ELSE UNCHANGED <<conversations, activeConversationId, fetches,
                              messages>>
          /\ UNCHANGED toasts
     ELSE /\ toasts' = Append(toasts, [title |-> "Error",
                                       description |-> "Failed to delete conversation"])
          /\ UNCHANGED <<dbConversations, dbMessages, conversations,
                         activeConversationId, fetches, messages>>
  /\ UNCHANGED <<calls, isLoading, isStreaming, convsCreated, listing,
                 userActions, roleVars, docVars, logVars>>

\* A conversation of the list is selected.
SelectConversation(id) ==
  /\ \E i \in 1..Len(conversations) : conversations[i].id = id
  /\ id # activeConversationId
  /\ BagCardinality(fetches) < MaxActions
  /\ ActiveSetTo(id)
  /\ UNCHANGED <<streamVars, dbConversations, convsCreated, conversations,
                 listing, chatCalls, userActions, roleVars, docVars, logVars>>

\* A fetchMessages(id) of the mounted view resolves: setMessages(data), or
\* nothing on error.
FetchMessagesResolves(id, ok) ==
  /\ BagIn(id, fetches)
  /\ Fault(~ok)
  /\ fetches' = fetches (-) SetToBag({id})
  /\ messages' = IF ok
                 THEN FetchedMessages(dbMessages, dbConversations, ChatUser, id)
                 ELSE messages
  /\ UNCHANGED <<calls, isLoading, isStreaming, toasts, dbMessages,
                 dbConversations, convsCreated, conversations,
                 activeConversationId, listing, chatCalls, userActions,
                 roleVars, docVars, logVars>>

\* The Chat view is mounted again: its state is that of the useState calls;
\* the effects send a fetchConversations, and no fetchMessages for a null
\* activeConversationId.  The requests of the view before go on, and their
\* answers set the state of no view.
FetchConversations ==
  /\ userActions < MaxActions
  /\ userActions' = userActions + 1
  /\ conversations' = <<>>
  /\ activeConversationId' = Null
  /\ messages' = <<>>
  /\ isLoading' = FALSE
  /\ isStreaming' = FALSE
  /\ calls' = [k \in DOMAIN calls |-> Unmounted(calls[k])]
  /\ chatCalls' = BagOfAll(Unmounted, chatCalls)
  /\ fetches' = EmptyBag
  /\ listing' = TRUE
  /\ UNCHANGED <<toasts, dbMessages, faults, dbConversations, convsCreated,
                 roleVars, docVars, logVars>>

\* The fetchConversations of the mounted view resolves: on an error nothing
\* is set; else setConversations(data), and, activeConversationId being null
\* in the closure of the mount, setActiveConversationId(data[0].id) for a
\* list that is not empty.
ConversationsFetched(ok) ==
  /\ listing
  /\ Fault(~ok)
  /\ listing' = FALSE
  /\ IF ok
     THEN LET data == FetchedConversations(dbConversations, ChatUser)
          IN /\ conversations' = data
             /\ IF data # <<>>
                THEN ActiveSetTo(data[1].id)
                ELSE UNCHANGED <<activeConversationId, fetches>>
     ELSE UNCHANGED <<conversations, activeConversationId, fetches>>
  /\ UNCHANGED <<calls, messages, isLoading, isStreaming, toasts, dbMessages,
                 dbConversations, convsCreated, chatCalls, userActions,
                 roleVars, docVars, logVars>>

\* A signed-in user sends a request of their own making against a
\* conversation of another user: an update of the title, a delete, an insert
\* of a message.
ForeignRequest(caller, op, id) ==
  /\ \E i \in 1..Len(dbConversations) :
       dbConversations[i].id = id /\ dbConversations[i].user_id # caller
  /\ dbConversations' =
       IF op = "update"
       THEN UpdateConversationTitle(dbConversations, caller, id, <<"x">>)
       ELSE IF op = "delete"
       THEN DeleteConversationRows(dbConversations, caller, id)
       ELSE dbConversations
  /\ dbMessages' =
       IF op = "insert" /\ CanInsertMessage(dbConversations, caller, id)
       THEN Append(dbMessages, [conversation_id |-> id, role |-> "user",
                                content |-> <<"x">>])
       ELSE Cascade(dbMessages, dbConversations')
  /\ UNCHANGED <<calls, messages, isLoading, isStreaming, toasts, faults,
                 convsCreated, conversations, activeConversationId, fetches,
                 listing, chatCalls, userActions, roleVars, docVars, logVars>>

\* The statuses the endpoint answers the Chat view with.
ChatStatuses == {200, 429}

\* The chunks the endpoint sends next to a call that has received so far:
\* a delta line, at most MaxChatLines of them.
ChatChunks(sofar) ==
  IF CountLines(sofar) < MaxChatLines THEN {LineA \o <<NL>>} ELSE {}

\* The Chat view: its handlers, called at any time and answered in any
\* order; sends that run side by side, each with a text not sent before; the
\* view mounted again at any time; the endpoint answering or failing.
ChatNext ==
  \/ \E content \in Contents \ {calls[k].content : k \in DOMAIN calls} :
       SendStart(content)
  \/ \E k \in DOMAIN calls, transportOk \in BOOLEAN : SendConvInsert(k, transportOk)
  \/ \E k \in DOMAIN calls, transportOk \in BOOLEAN : SendUserInsert(k, transportOk)
  \/ \E k \in DOMAIN calls, transportOk \in BOOLEAN : SendTitleUpdate(k, transportOk)
  \/ \E k \in DOMAIN calls, code \in ChatStatuses, hasBody \in BOOLEAN :
       FetchResponds(k, code, hasBody)
  \/ \E k \in DOMAIN calls, reason \in Rejections : FetchRejects(k, reason)
  \/ \E k \in DOMAIN calls : \E value \in ChatChunks(calls[k].received) :
       ReadChunk(k, value)
  \/ \E k \in DOMAIN calls : ReadDone(k)
  \/ \E k \in DOMAIN calls, reason \in Rejections : ReadRejects(k, reason)
  \/ \E k \in DOMAIN calls, transportOk \in BOOLEAN :
       InsertAssistant(k, transportOk,
                       CanInsertMessage(dbConversations, ChatUser,
                                        calls[k].conversationId))
  \/ CreateConversationCall
  \/ \E call \in ChatCallsOf("create"), transportOk \in BOOLEAN :
       CreateNewConversation(call, transportOk)
  \/ \E id \in 1..convsCreated : DeleteConversationCall(id)
  \/ \E call \in ChatCallsOf("delete"), transportOk \in BOOLEAN :
       DeleteConversation(call, transportOk)
  \/ \E id \in 1..convsCreated : SelectConversation(id)
  \/ \E id \in BagToSet(fetches), ok \in BOOLEAN : FetchMessagesResolves(id, ok)
  \/ FetchConversations
  \/ \E ok \in BOOLEAN : ConversationsFetched(ok)
  \/ \E caller \in {ChatUser, OtherUser}, op \in {"update", "delete", "insert"},
        id \in 1..convsCreated :
       ForeignRequest(caller, op, id)

---------------------------------------------------------------------------
(* The removal of an account, and the system log in its environment *)

\* The rows of legal_documents once the account u is removed: uploaded_by
\* and validated_by REFERENCES auth.users(id) ON DELETE SET NULL.
DocumentsWithout(docs, u) ==
  [i \in 1..Len(docs) |->
     [docs[i] EXCEPT
        !.uploaded_by = IF @ = u THEN "" ELSE @,
        !.validated_by = IF @ = u THEN "" ELSE @]]

\* The rows of conversations once the account u is removed: user_id
\* REFERENCES auth.users(id) ON DELETE CASCADE.
ConversationsWithout(rows, u) ==
  LET kept(row) == row.user_id # u
  IN SelectSeq(rows, kept)

\* The row of auth.users of u is deleted: the references to it are followed,
\* ON DELETE CASCADE for user_roles and conversations (and from these for
\* messages), ON DELETE SET NULL for legal_documents and system_logs.  What
\* the views of the clients hold is left as it is.
RemoveAccount(u) ==
  /\ u \in registered
  /\ registered' = registered \ {u}
  /\ user_roles' = {row \in user_roles : row[1] # u}
  /\ system_logs' = LogsWithout(system_logs, u)
  /\ legal_documents' = DocumentsWithout(legal_documents, u)
  /\ dbConversations' = ConversationsWithout(dbConversations, u)
  /\ dbMessages' = Cascade(dbMessages, dbConversations')
  /\ UNCHANGED <<currentRole, rc, roleToast, roleCalls, docsCreated, documents,
                 docToast, docFetches, docStale, docCalls, docActions,
                 convsCreated, conversations, activeConversationId, fetches,
                 listing, chatCalls, userActions, calls, messages, isLoading,
                 isStreaming, toasts, faults, logsView>>

\* The accounts of the system log: the admins a1 and a2, and u1 who has
\* signed up.
LogsRoles ==
  /\ registered = UserIds
  /\ user_roles = {<<a, "admin">> : a \in Admins} \cup {<<"u1", "user">>}
  /\ currentRole = [c \in Sessions |-> "admin"]
  /\ rc = [c \in Sessions |-> EmptyBag]
  /\ roleToast = NoToast
  /\ roleCalls = 0

\* The system log: a2 and u1 open the Logs view, every user sends inserts,
\* updates and deletes, a1 makes a2 a user or an admin, one change at a
\* time, and the accounts of a2 and u1 are removed.
LogsNext ==
  \/ \E c \in LogViewers : FetchLogs(c)
  \/ \E c \in LogViewers, transportOk \in BOOLEAN : LogsFetched(c, transportOk)
  \/ \E caller \in UserIds, user_id \in UserIds \cup {NoUser} :
       InsertLog(caller, user_id)
  \/ \E caller \in UserIds, op \in {"update", "delete"}, id \in 1..MaxLogs :
       ChangeLog(caller, op, id)
  \/ \E u \in LogViewers : RemoveAccount(u)
  \/ \E newRole \in {"user", "admin"} :
       rc["a1"] = EmptyBag /\ RoleChangeCall("a1", "a2", newRole)
  \/ \E newRole \in {"user", "admin"} : RoleChangeDelete("a1", "a2", newRole, TRUE)
  \/ \E call \in InsertsOf("a1") : RoleChangeInsert("a1", call, TRUE)

---------------------------------------------------------------------------
(* Specifications *)

\* A send about to make its stream request, and the role table as seeded.
Init == ChatMidSend /\ StreamInit /\ RolesInit /\ DocsInit /\ LogsInit

\* One send, from the stream request to its end.
StreamSpec == Init /\ [][StreamNext]_vars

\* The accounts and their roles.
RolesSpec == Init /\ [][RolesNext]_vars

\* The state the document catalogue starts from.
DocsStart ==
  /\ ChatMidSend /\ StreamInit /\ LogsInit
  /\ DocsRoles
  /\ DocsInit

\* The document catalogue.
DocsSpec == DocsStart /\ [][DocsNext]_vars

\* The conversations of the Chat view.
ChatSpec == ChatStart /\ [][ChatNext]_vars

\* The state the system log starts from.
LogsStart ==
  /\ ChatMidSend /\ StreamInit /\ DocsInit
  /\ LogsRoles
  /\ LogsInit

\* The system log.
LogsSpec == LogsStart /\ [][LogsNext]_vars

\* The transport closes or fails: the fetch resolves or rejects, the body
\* ends or a read of it rejects, and the insert resolves.
Settles ==
  \/ \E k \in DOMAIN calls, code \in Statuses, hasBody \in BOOLEAN :
       (code = 204 => ~hasBody) /\ FetchResponds(k, code, hasBody)
  \/ \E k \in DOMAIN calls, reason \in Rejections : FetchRejects(k, reason)
  \/ \E k \in DOMAIN calls : ReadDone(k)
  \/ \E k \in DOMAIN calls, reason \in Rejections : ReadRejects(k, reason)
  \/ \E k \in DOMAIN calls, transportOk \in BOOLEAN, allowed \in BOOLEAN :
       InsertAssistant(k, transportOk, allowed)

\* One streamed answer whose transport closes or fails after any number of
\* chunks.
StreamLiveSpec == Init /\ [][StreamNext]_vars /\ WF_vars(Settles)

---------------------------------------------------------------------------
(* Vocabulary of the properties *)

\* The chunk read in a step of the read loop.
ChunkRead == SubSeq(received', Len(received) + 1, Len(received'))

\* A step of the read loop that reads a chunk.
ReadsChunk == pc = "reading" /\ received' # received

\* The complete lines of s, without their newlines.
RECURSIVE SplitLines(_)
SplitLines(s) ==
  IF IndexOf(s, NL) = 0 THEN <<>>
  ELSE <<SubSeq(s, 1, IndexOf(s, NL) - 1)>>
         \o SplitLines(SubSeq(s, IndexOf(s, NL) + 1, Len(s)))

\* The first line of a text that holds a newline, and what follows it.
FirstLine(s) == SubSeq(s, 1, IndexOf(s, NL) - 1)
AfterFirstLine(s) == SubSeq(s, IndexOf(s, NL) + 1, Len(s))

\* The concatenation of a sequence of texts.
RECURSIVE Concat(_)
Concat(ts) == IF ts = <<>> THEN <<>> ELSE Head(ts) \o Concat(Tail(ts))

\* The well-formed data lines, and the text delta each carries.
WellFormedLines == {LineA, LineB, LineRole}
DeltaOf(l) == IF l = LineA THEN <<"a">> ELSE IF l = LineB THEN <<"b">> ELSE <<>>

\* The accumulated texts due for a sequence of well-formed lines: one for
\* each line whose delta is not empty.
RECURSIVE Accumulated(_, _)
Accumulated(ls, acc) ==
  IF ls = <<>> THEN <<>>
  ELSE IF DeltaOf(Head(ls)) = <<>> THEN Accumulated(Tail(ls), acc)
  ELSE <<acc \o DeltaOf(Head(ls))>>
         \o Accumulated(Tail(ls), acc \o DeltaOf(Head(ls)))

\* The stream received is well-formed data lines followed by a sentinel line.
SentinelTerminated ==
  LET ls == SplitLines(received)
  IN /\ Partial(received) = <<>>
     /\ Len(ls) >= 1
     /\ ls[Len(ls)] = LineDone
     /\ \A i \in 1..(Len(ls) - 1) : ls[i] \in WellFormedLines

\* The well-formed lines before the sentinel line.
LinesBeforeSentinel ==
  SubSeq(SplitLines(received), 1, Len(SplitLines(received)) - 1)

---------------------------------------------------------------------------
(* C1 *)

\* C1, as stated: when the chunks received form N well-formed data lines
\* followed by a sentinel line, exactly N accumulated texts have been emitted,
\* each extending the one before.
C1_ExactlyOnePerLine ==
  SentinelTerminated =>
    /\ Len(emitted) = Len(LinesBeforeSentinel)
    /\ \A i \in 2..Len(emitted) : IsPrefix(emitted[i - 1], emitted[i])

\* C1, amended: when the chunks received form well-formed data lines followed
\* by a sentinel line, one accumulated text has been emitted for each line
\* whose delta is not empty and none for the others and for the sentinel line;
\* each text is the one before extended by the line's delta.
C1_OnePerNonEmptyDelta ==
  SentinelTerminated => emitted = Accumulated(LinesBeforeSentinel, <<>>)

\* Two data lines with deltas and the sentinel line have come; two texts went
\* out.
C1_Witness ==
  /\ received = LineA \o <<NL>> \o LineB \o <<NL>> \o LineDone \o <<NL>>
  /\ emitted = << <<"a">>, <<"a", "b">> >>

---------------------------------------------------------------------------
(* C2 *)

\* The chunk c, cut after its k-th token, splits one data line in two: the
\* line begins in the first part and ends, with its newline, in the second.
SplitsDataLine(c, k) ==
  LET p == SubSeq(c, 1, k)
      q == SubSeq(c, k + 1, Len(c))
      begun == Partial(Partial(received) \o p)
  IN /\ IndexOf(p, NL) # 0 \/ Partial(received) = <<>>
     /\ begun # <<>>
     /\ IndexOf(q, NL) # 0
     /\ StartsWith(begun, DATA)

\* C2: a chunk that arrives in one piece leaves the parser with the same
\* emitted texts and the same accumulated text as the same bytes arriving in
\* two pieces that split one of its data lines.
C2_SplitSameAsWhole ==
  [][ReadsChunk =>
       \A k \in 1..(Len(ChunkRead) - 1) :
         SplitsDataLine(ChunkRead, k) =>
           LET split == OnChunk(OnChunk(ParserState, SubSeq(ChunkRead, 1, k)),
                                SubSeq(ChunkRead, k + 1, Len(ChunkRead)))
           IN /\ split.emitted = emitted'
              /\ split.assistantContent = assistantContent']_vars

---------------------------------------------------------------------------
(* C3 *)

\* The text begins with a newline-terminated data line whose payload is not
\* the sentinel and does not parse.
Stalled(b) ==
  /\ IndexOf(b, NL) # 0
  /\ StartsWith(FirstLine(b), DATA)
  /\ Trim(SliceDataPrefix(FirstLine(b))) # <<DONE>>
  /\ JSONParse(Trim(SliceDataPrefix(FirstLine(b)))).threw

\* b is what is left of text t from one of its line starts on, the first
\* line without its carriage return.
PushedBack(b, t) ==
  \E i \in 1..Len(t) :
    /\ i = 1 \/ t[i - 1] = NL
    /\ LET rest == SubSeq(t, i, Len(t))
       IN /\ IndexOf(rest, NL) # 0
          /\ b = StripCR(FirstLine(rest)) \o <<NL>> \o AfterFirstLine(rest)

\* C3: when a pass of the loop ends on a data line whose payload does not
\* parse, the buffer afterwards is that line, its newline, and everything
\* that followed it; no notification is raised and the read loop goes on.
C3_ParseFailureRebuffers ==
  [][(ReadsChunk /\ OnChunk(ParserState, ChunkRead).lastKind = "fail") =>
       /\ Stalled(buffer')
       /\ PushedBack(buffer', buffer \o ChunkRead)
       /\ toasts' = toasts
       /\ pc' = "reading"]_vars

\* A truncated data line has been tried and is back in the buffer.
C3_Witness ==
  /\ pc = "reading"
  /\ received = LineTruncated \o <<NL>>
  /\ buffer = LineTruncated \o <<NL>>
  /\ toasts = <<>>

---------------------------------------------------------------------------
(* C4 *)

\* C4: once a sentinel line has been read, no further text is emitted.
C4_NothingAfterSentinel == [][doneSeen => emitted' = emitted]_vars

---------------------------------------------------------------------------
(* C5 *)

\* C5: the i-th value handed to the transcript is the concatenation of the
\* first i extracted deltas, none of them empty, and the assistant entry of
\* the transcript holds the last of these values.
C5_TranscriptHoldsAccumulatedText ==
  /\ Len(emitted) = Len(deltas)
  /\ \A i \in 1..Len(deltas) :
       /\ deltas[i] # <<>>
       /\ emitted[i] = Concat(SubSeq(deltas, 1, i))
  /\ deltas # <<>> =>
       messages[Len(messages)] = [role |-> "assistant", content |-> Concat(deltas)]

\* Two different deltas have been extracted.
C5_Witness ==
  /\ deltas = << <<"b">>, <<"a">> >>
  /\ messages[Len(messages)].content = <<"b", "a">>

---------------------------------------------------------------------------
(* C6 *)

\* A comment line, a blank line, or a line that does not begin with the data
\* prefix.
IsSkipLine(l) ==
  \/ StartsWith(l, COLON)
  \/ \A i \in 1..Len(l) : l[i] \in WhiteSpace
  \/ ~StartsWith(l, DATA)

\* The text without its complete lines of that kind.
RECURSIVE StripSkipLines(_)
StripSkipLines(t) ==
  LET n == IndexOf(t, NL)
      l == SubSeq(t, 1, n - 1)
      after == SubSeq(t, n + 1, Len(t))
  IN IF n = 0 THEN t
     ELSE IF IsSkipLine(l) THEN StripSkipLines(after)
     ELSE l \o <<NL>> \o StripSkipLines(after)

\* Every complete line of the text is of that kind.
RECURSIVE OnlySkipLines(_)
OnlySkipLines(t) ==
  IndexOf(t, NL) # 0 =>
    /\ IsSkipLine(FirstLine(t))
    /\ OnlySkipLines(AfterFirstLine(t))

\* What a pass leaves behind for the reader of the conversation.
Outcome(st) == <<st.emitted, st.assistantContent, st.messages>>

\* C6: a pass of the loop over a text ends with the emitted texts, the
\* accumulated text and the transcript of a pass over the same text without
\* its comment, blank and non-data lines; a pass over such lines alone
\* changes none of the three.
C6_SkippedLinesAreInert ==
  [][ReadsChunk =>
       /\ <<emitted', assistantContent', messages'>> =
            Outcome(Drain([ParserState EXCEPT
                             !.buffer = StripSkipLines(buffer \o ChunkRead)]))
       /\ OnlySkipLines(buffer \o ChunkRead) =>
            <<emitted', assistantContent', messages'>> =
              <<emitted, assistantContent, messages>>]_vars

\* A line without the prefix stood between two data lines, and both deltas
\* went out.
C6_Witness ==
  /\ received = LineA \o <<NL>> \o LineIndented \o <<NL>> \o LineB \o <<NL>>
  /\ emitted = << <<"a">>, <<"a", "b">> >>

---------------------------------------------------------------------------
(* C7 *)

\* C7: the step that learns of the end of the stream emits nothing, leaves
\* the accumulated text and the transcript as they are and raises no
\* notification, whatever the buffer holds; the assistant message saved next
\* is the concatenation of the deltas extracted before.
C7_LeftoverDiscarded ==
  [][/\ (pc = "reading" /\ pc' = "insert") =>
          /\ emitted' = emitted
          /\ deltas' = deltas
          /\ assistantContent' = assistantContent
          /\ messages' = messages
          /\ toasts' = toasts
     /\ (pc = "insert" /\ pc' = "done") =>
          /\ messages' = messages
          /\ toasts' = toasts
          /\ \/ dbMessages' = dbMessages
             \/ dbMessages' = Append(dbMessages,
                                     [conversation_id |-> ConversationId,
                                      role |-> "assistant",
                                      content |-> Concat(deltas)])]_vars

\* The stream ended on a complete payload without its newline: nothing was
\* emitted and the message saved is empty.
C7_Witness ==
  /\ pc = "done"
  /\ received = LineA
  /\ buffer = LineA
  /\ emitted = <<>>
  /\ toasts = <<>>
  /\ dbMessages[Len(dbMessages)].role = "assistant"
  /\ dbMessages[Len(dbMessages)].content = <<>>

---------------------------------------------------------------------------
(* C8 *)

\* C8: after a response that is not a success the send is over with one
\* notification, whose text tells 429, 402 and the other statuses apart;
\* nothing was read or emitted, the transcript ends with the user's message
\* and the table holds no row beyond the transcript's.
C8_NonSuccessClassified ==
  (status # 0 /\ ~ResponseOk(status)) =>
    /\ pc = "done"
    /\ received = <<>>
    /\ emitted = <<>>
    /\ messages[Len(messages)] = UserMessage
    /\ dbMessages = [i \in 1..Len(messages) |-> Row(messages[i])]
    /\ Len(toasts) = 1
    /\ toasts[1].title = "Error"
    /\ status = 429 <=>
         toasts[1].description = "Rate limit exceeded. Please try again later."
    /\ status = 402 <=>
         toasts[1].description = "Payment required. Please add credits to continue."
    /\ status \notin {429, 402} <=>
         toasts[1].description = "Failed to get response"

\* The endpoint has answered 429.
C8_Witness ==
  /\ status = 429
  /\ pc = "done"
  /\ toasts = <<[title |-> "Error",
                 description |-> "Rate limit exceeded. Please try again later."]>>

---------------------------------------------------------------------------
(* C9 *)

\* C9: while the buffer begins with a newline-terminated data line that does
\* not parse, no step emits a text or changes the transcript; a chunk read is
\* appended behind that line and the loop goes on without a notification, and
\* the end of the stream raises none either.
C9_MalformedLineStalls ==
  [][(pc = "reading" /\ Stalled(buffer)) =>
       /\ emitted' = emitted
       /\ deltas' = deltas
       /\ messages' = messages
       /\ ReadsChunk =>
            /\ buffer' = buffer \o ChunkRead
            /\ toasts' = toasts
            /\ pc' = "reading"
       /\ pc' = "insert" => toasts' = toasts]_vars

\* A well-formed data line has come in a later chunk than the truncated line
\* before it, and nothing has been emitted.
C9_Witness ==
  /\ pc = "reading"
  /\ received = LineTruncated \o <<NL>> \o LineA \o <<NL>>
  /\ buffer = received
  /\ emitted = <<>>
  /\ toasts = <<>>

---------------------------------------------------------------------------
(* C10 *)

\* No handleRoleChange stands between its two requests.
NoRoleChangeInFlight == \A c \in Sessions : rc[c] = EmptyBag

\* C10: whenever no role change is in flight, every registered user has
\* exactly one row in user_roles.
C10_RoleSingular ==
  NoRoleChangeInFlight =>
    \A u \in registered : Cardinality(RolesOf(user_roles, u)) = 1

---------------------------------------------------------------------------
(* C11 *)

\* The step ends a call of session c: its answer has come and no further
\* request is sent.
CallEnds(c, call) ==
  /\ BagIn(call, rc[c])
  /\ rc'[c] = rc[c] (-) SetToBag({call})

\* C11: when a handleRoleChange ends with the error toast, at its delete
\* request or at its insert request, the target user has the rows it had
\* before the call's delete request.
C11_FailedRoleChangeKeepsRows ==
  [][\A c \in Sessions :
       \A call \in BagToSet(rc[c]) :
         /\ (CallEnds(c, call) /\ call.at = "delete") =>
              user_roles' = user_roles
         /\ (CallEnds(c, call) /\ call.at = "insert"
               /\ roleToast'.title = "Error updating role") =>
              RolesOf(user_roles', call.userId) = call.before]_vars

---------------------------------------------------------------------------
(* C16 *)

\* The entries shown to role `new` that are not shown to role `old`, in the
\* order of the navigation.
Revealed(old, new) ==
  LET hidden(item) ==
        \A i \in 1..Len(visibleNavItems(old)) : visibleNavItems(old)[i] # item
  IN SelectSeq(visibleNavItems(new), hidden)

Paths(items) == [i \in 1..Len(items) |-> items[i].path]

\* The entries shown to admins and to no other role.
AdminOnly ==
  LET only(item) == item.roles = {"admin"}
  IN SelectSeq(navItems, only)

\* A session resolves its role again and goes from user to admin.
UserBecomesAdmin(c) == currentRole[c] = "user" /\ currentRole'[c] = "admin"

\* C16 as stated: when a session's role goes from user to admin, the entries
\* revealed are exactly the entries shown to admins only.
C16_RevealsAdminOnly ==
  [][\A c \in Sessions :
       UserBecomesAdmin(c) =>
         Revealed(currentRole[c], currentRole'[c]) = AdminOnly]_vars

\* C16: when a session's role goes from user to admin, the entries revealed
\* are Documents, Users and System Logs, in this order: every entry that is
\* not shown to a plain user; the navigation then shows all four entries.
C16_RevealsNonUserEntries ==
  [][\A c \in Sessions :
       UserBecomesAdmin(c) =>
         /\ Paths(Revealed(currentRole[c], currentRole'[c])) =
              <<"/documents", "/users", "/logs">>
         /\ Paths(visibleNavItems(currentRole'[c])) =
              <<"/chat", "/documents", "/users", "/logs">>
         /\ Paths(visibleNavItems(currentRole[c])) = <<"/chat">>]_vars

\* A session still holds the role user while its account has been made
\* admin in the role table: its next resolution reveals the entries.
C16_Witness ==
  /\ currentRole["a2"] = "user"
  /\ RolesOf(user_roles, "a2") = {"admin"}
  /\ NoRoleChangeInFlight
  /\ roleToast = [title |-> "Role updated",
                  description |-> "User role has been changed to admin."]

---------------------------------------------------------------------------
(* C12 *)

\* The elements of a sequence.
Range(seq) == {seq[i] : i \in 1..Len(seq)}

\* The user holds the role admin or legal_analyst in the role table.
IsStaff(u) == RolesOf(user_roles, u) \cap {"admin", "legal_analyst"} # {}

\* C12: a query of the documents by a signed-in user returns every validated
\* document; it returns an unvalidated document exactly when the user
\* uploaded it or is an admin or a legal_analyst, so not to a plain user
\* other than the uploader.
C12_DocumentVisibility ==
  \A u \in registered :
    \A d \in Range(legal_documents) :
      LET returned == d \in Range(SelectDocuments(legal_documents, user_roles, u))
      IN /\ d.validated => returned
         /\ (~d.validated /\ d.uploaded_by # u /\ ~IsStaff(u)) => ~returned
         /\ (~d.validated /\ (d.uploaded_by = u \/ IsStaff(u))) => returned

\* An unvalidated document of a2, who is a plain user by now and has it in
\* its view: admin a1 would get it, the legal_analyst l1, who did not upload
\* it, has it in its view, and the plain user u1, who did not upload it,
\* would not get it.
C12_Witness ==
  /\ Len(legal_documents) = 1
  /\ ~legal_documents[1].validated
  /\ legal_documents[1].uploaded_by = "a2"
  /\ RolesOf(user_roles, "a2") = {"user"}
  /\ documents["a2"] = legal_documents
  /\ RolesOf(user_roles, "a1") = {"admin"}
  /\ SelectDocuments(legal_documents, user_roles, "a1") = legal_documents
  /\ RolesOf(user_roles, "l1") = {"legal_analyst"}
  /\ docFetches["l1"] = 0
  /\ documents["l1"] = legal_documents
  /\ RolesOf(user_roles, "u1") = {"user"}
  /\ SelectDocuments(legal_documents, user_roles, "u1") = <<>>

---------------------------------------------------------------------------
(* C13 *)

\* C13: a step that adds a document uploaded by a user who is no admin in
\* the role table adds it unvalidated.
C13_UnvalidatedUnlessAdmin ==
  [][\A d \in Range(legal_documents') \ Range(legal_documents) :
       (Len(legal_documents') = Len(legal_documents) + 1
          /\ ~has_role(user_roles, d.uploaded_by, "admin")) =>
         ~d.validated]_vars

---------------------------------------------------------------------------
(* C14 *)

\* The ids of the rows of a table of documents.
IdsOf(docs) == {d.id : d \in Range(docs)}

\* The row with the id.
DocWithId(docs, id) == CHOOSE d \in Range(docs) : d.id = id

\* The step answers a call of session c of the handler, for the document.
Answers(c, op, id) ==
  \E call \in CallsOf(c, op) :
    /\ call.id = id
    /\ docCalls'[c] = docCalls[c] (-) SetToBag({call})

\* The step sends the request of a call of session c of the handler.
Sends(c, op) ==
  \E call \in BagToSet(docCalls'[c]) :
    /\ call.op = op
    /\ call.live
    /\ CopiesIn(call, docCalls'[c]) > CopiesIn(call, docCalls[c])

\* C14: a step in which a document goes from unvalidated to validated is
\* the answer to a handleValidate (it ends with that handler's toast) of a
\* user who has the role admin or legal_analyst in the role table; a step in
\* which a document leaves the table is the answer to a handleDelete of a
\* user who is an admin in the role table; handleValidate sends its request
\* only in a session whose role is admin or legal_analyst, handleDelete only
\* in a session whose role is admin.
C14_ValidateAndDeleteGated ==
  [][/\ \A id \in IdsOf(legal_documents) \cap IdsOf(legal_documents') :
          (~DocWithId(legal_documents, id).validated
             /\ DocWithId(legal_documents', id).validated) =>
            /\ docToast'.title = "Document validated"
            /\ \E c \in DocSessions :
                 /\ Answers(c, "validate", id)
                 /\ DocWithId(legal_documents', id).validated_by = c
                 /\ IsStaff(c)
     /\ \A id \in IdsOf(legal_documents) \ IdsOf(legal_documents') :
          /\ docToast'.title = "Document deleted"
          /\ \E c \in DocSessions :
               /\ Answers(c, "delete", id)
               /\ has_role(user_roles, c, "admin")
               /\ docFetches'[c] = docFetches[c] + 1
     /\ \A c \in DocSessions :
          /\ Sends(c, "validate") => currentRole[c] \in {"admin", "legal_analyst"}
          /\ Sends(c, "delete") => currentRole[c] = "admin"
          /\ \A call \in BagToSet(docCalls[c]) :
               call.op = "validate" => call.role \in {"admin", "legal_analyst"}
          /\ \A call \in BagToSet(docCalls[c]) :
               call.op = "delete" => call.role = "admin"]_vars

\* A document that a2 uploaded unvalidated has been validated by a2, a
\* legal_analyst.
C14_Witness ==
  /\ Len(legal_documents) = 1
  /\ legal_documents[1].validated
  /\ legal_documents[1].uploaded_by = "a2"
  /\ legal_documents[1].validated_by = "a2"
  /\ RolesOf(user_roles, "a2") = {"legal_analyst"}
  /\ currentRole["a2"] = "legal_analyst"
  /\ docToast.title = "Document validated"

---------------------------------------------------------------------------
(* Conversations and their messages *)

\* The ids of the conversations in the backend.
LiveIds == {dbConversations[i].id : i \in 1..Len(dbConversations)}

\* The messages of conversation id in the backend.
MessagesOf(id) ==
  LET of(m) == m.conversation_id = id
  IN SelectSeq(dbMessages, of)

\* C15: a conversation that is not in the backend (never made, or deleted)
\* has no message there, in any state, also when a send for it was running
\* at the delete and inserts afterwards: every message references a live
\* conversation.
C15_MessagesReferenceLiveConversation ==
  /\ \A i \in 1..Len(dbMessages) : dbMessages[i].conversation_id \in LiveIds
  /\ \A id \in 1..convsCreated : id \notin LiveIds => MessagesOf(id) = <<>>

\* The conversation of a send was deleted while the send ran, and the send
\* went on to its end with a streamed answer to store.
C15_Witness ==
  \E k \in DOMAIN calls :
    /\ calls[k].pc = "done"
    /\ calls[k].status = 200
    /\ calls[k].assistantContent # <<>>
    /\ calls[k].conversationId \in 1..convsCreated
    /\ calls[k].conversationId \notin LiveIds
    /\ MessagesOf(calls[k].conversationId) = <<>>

\* The step shows one more notification, with the text msg.
Surfaced(msg) ==
  /\ Len(toasts') = Len(toasts) + 1
  /\ toasts'[Len(toasts')].description = msg

\* C17: every backend mutation of the Chat view that fails (conversation
\* insert, conversation delete, message insert, title update) shows a
\* notification with the error message the backend returned.
C17_MutationErrorsSurfaced ==
  [][/\ \A call \in ChatCallsOf("create") :
          CreateNewConversation(call, FALSE) => Surfaced(TransportErrorText)
     /\ \A call \in ChatCallsOf("delete") :
          DeleteConversation(call, FALSE) => Surfaced(TransportErrorText)
     /\ \A k \in DOMAIN calls :
          /\ SendConvInsert(k, FALSE) => Surfaced(TransportErrorText)
          /\ SendUserInsert(k, FALSE) => Surfaced(TransportErrorText)
          /\ (SendUserInsert(k, TRUE)
               /\ ~CanInsertMessage(dbConversations, ChatUser,
                                    calls[k].conversationId))
               => Surfaced(MessageInsertError)
          /\ SendTitleUpdate(k, FALSE) => Surfaced(TransportErrorText)
          /\ InsertAssistant(k, FALSE, TRUE) => Surfaced(TransportErrorText)
          /\ InsertAssistant(k, TRUE, FALSE) => Surfaced(MessageInsertError)]_vars

\* A send is between showing its user message and its title step for
\* conversation id.
TitlePending(id) ==
  \E k \in DOMAIN calls :
    calls[k].pc \in {"userInsert", "titleUpdate"} /\ calls[k].conversationId = id

\* C18: once the first message of a conversation is stored and the send that
\* stored it is past its title step, the title of the conversation in the
\* backend and in the local list is the first 50 characters of that message,
\* with '...' exactly when the message is longer; later sends keep it.
C18_TitleFromFirstMessage ==
  \A i \in 1..Len(dbConversations) :
    LET c == dbConversations[i]
        ms == MessagesOf(c.id)
    IN (ms # <<>> /\ ~TitlePending(c.id)) =>
         /\ c.title = TitleOfFirstMessage(ms[1].content)
         /\ \A j \in 1..Len(conversations) :
              conversations[j].id = c.id =>
                conversations[j].title = TitleOfFirstMessage(ms[1].content)

\* The place of a stage in sendMessage.
Rank(stage) ==
  CASE stage = "convInsert" -> 1
    [] stage = "userInsert" -> 2
    [] stage = "titleUpdate" -> 3
    [] stage = "fetch" -> 4
    [] stage = "reading" -> 5
    [] stage = "insert" -> 6
    [] OTHER -> 7

\* The step stores one more message, of the given role.
Stores(role) ==
  /\ Len(dbMessages') = Len(dbMessages) + 1
  /\ dbMessages'[Len(dbMessages')].role = role

\* The step changes the title of a conversation that stays.
Retitles ==
  \E i \in 1..Len(dbConversations), j \in 1..Len(dbConversations') :
    /\ dbConversations[i].id = dbConversations'[j].id
    /\ dbConversations[i].title # dbConversations'[j].title

\* Call k goes from one stage to another in the step.
Moves(k, from, to) == calls[k].pc = from /\ calls'[k].pc = to

\* The requests of every sendMessage call are made in the order conversation
\* insert (with no active conversation), user message insert, title update
\* (for a first message), stream request, assistant message insert, each
\* where the call stands after the one before it resolved; the assistant
\* message is stored only once the transport has closed, or the response
\* had no body to read.
SendRequestsInOrder ==
  /\ \A k \in DOMAIN calls :
       /\ k \in DOMAIN calls'
       /\ calls'[k].pc # calls[k].pc => Rank(calls'[k].pc) > Rank(calls[k].pc)
       /\ (calls[k].pc = "userInsert" /\ calls'[k].pc # calls[k].pc) =>
            calls'[k].pc = (IF calls[k].first THEN "titleUpdate" ELSE "fetch")
       /\ (calls[k].pc = "fetch" /\ calls'[k].pc # calls[k].pc) =>
            calls'[k].pc \in {"reading", "insert", "done"}
       /\ (calls'[k].pc = "insert" /\ calls'[k].pc # calls[k].pc) =>
            /\ calls[k].pc \in {"reading", "fetch"}
            /\ calls'[k].received = calls[k].received
  /\ \A k \in DOMAIN calls' \ DOMAIN calls :
       calls'[k].pc = (IF activeConversationId = Null THEN "convInsert"
                       ELSE "userInsert")
  /\ (chatCalls' = chatCalls /\ convsCreated' # convsCreated) =>
       \E k \in DOMAIN calls : Moves(k, "convInsert", "userInsert")
  /\ Stores("user") =>
       \E k \in DOMAIN calls :
         Moves(k, "userInsert", "titleUpdate") \/ Moves(k, "userInsert", "fetch")
  /\ Retitles => \E k \in DOMAIN calls : Moves(k, "titleUpdate", "fetch")
  /\ Stores("assistant") => \E k \in DOMAIN calls : Moves(k, "insert", "done")

\* C19: within one sendMessage call the requests are made in order, each
\* after the one before it resolved, the assistant message insert only after
\* the transport has closed; and when the assistant message of a send is
\* stored, the user message of that send was stored before it.
C19_SendOrder ==
  [][/\ SendRequestsInOrder
     /\ \A k \in DOMAIN calls :
          (Moves(k, "insert", "done") /\ Stores("assistant"))
            => calls[k].userStored]_vars

\* The requests of a send are made in order (the part of C19 about the
\* order of the requests).
C19_RequestsInOrder == [][SendRequestsInOrder]_vars

\* The conversations of user u in the backend, and their messages.
ConversationsOf(u) ==
  LET of(row) == row.user_id = u
  IN SelectSeq(dbConversations, of)

MessagesOfUser(u) ==
  LET of(m) == \E i \in 1..Len(dbConversations) :
                 /\ dbConversations[i].id = m.conversation_id
                 /\ dbConversations[i].user_id = u
  IN SelectSeq(dbMessages, of)

\* What user u reads is their own: the conversations selected belong to u,
\* and no message of a conversation of another user is selected.
ReadsOwnOnly(u) ==
  /\ \A i \in 1..Len(SelectConversations(dbConversations, u)) :
       SelectConversations(dbConversations, u)[i].user_id = u
  /\ \A i \in 1..Len(dbConversations) :
       dbConversations[i].user_id # u =>
         SelectMessages(dbMessages, dbConversations, u, dbConversations[i].id) = <<>>

\* The Chat view of ChatUser shows nothing of OtherUser: no conversation of
\* OtherUser is in the list, and no message of OtherUser in the transcript.
ShowsOwnOnly ==
  /\ \A j \in 1..Len(conversations), i \in 1..Len(dbConversations) :
       conversations[j].id = dbConversations[i].id =>
         dbConversations[i].user_id = ChatUser
  /\ \A j \in 1..Len(messages), i \in 1..Len(MessagesOfUser(OtherUser)) :
       messages[j].content # MessagesOfUser(OtherUser)[i].content

\* The step is a request of one user against a conversation of another: an
\* update of the title, a delete, an insert of a message.
ForeignRequests ==
  \E caller \in {ChatUser, OtherUser}, op \in {"update", "delete", "insert"},
     id \in 1..convsCreated :
    ForeignRequest(caller, op, id)

\* C20: a user reads only their own conversations and the messages of
\* these; a request of one user against a conversation of another (update,
\* delete, insert of a message) changes no conversation and no message; and
\* no step, of the Chat view of ChatUser or of such a request, changes a
\* conversation or a message of OtherUser, nor does the Chat view of ChatUser
\* ever show one.
C20_OwnerOnly ==
  /\ [](ReadsOwnOnly(ChatUser) /\ ReadsOwnOnly(OtherUser) /\ ShowsOwnOnly)
  /\ [][/\ ~UNCHANGED <<dbConversations, dbMessages>> => ~ForeignRequests
        /\ ConversationsOf(OtherUser)' = ConversationsOf(OtherUser)
        /\ MessagesOfUser(OtherUser)' = MessagesOfUser(OtherUser)]_vars

\* Both users have a conversation with a message in the backend, and the
\* Chat view of ChatUser has loaded its list and shows a transcript.
C20_Witness ==
  /\ MessagesOfUser(ChatUser) # <<>>
  /\ MessagesOfUser(OtherUser) # <<>>
  /\ conversations = FetchedConversations(dbConversations, ChatUser)
  /\ conversations # <<>>
  /\ messages # <<>>
  /\ fetches = EmptyBag
  /\ \E k \in DOMAIN calls : calls[k].pc = "done"

---------------------------------------------------------------------------
(* The system log *)

\* A select by a user who is no admin returns no row.
NonAdminsReadNothing ==
  \A u \in UserIds :
    ~has_role(user_roles, u, "admin")
      => SelectLogs(system_logs, user_roles, u) = <<>>

\* The step answers the fetchLogs of a mounted Logs view whose user is no
\* admin only with an empty list.
NonAdminViewsStayEmpty ==
  \A c \in LogViewers :
    (LogsFetched(c, TRUE) /\ ~has_role(user_roles, c, "admin"))
      => logsView'[c].logs = <<>>

\* Every row the step adds has the user_id of the user who made the insert.
InsertsOwnIdOnly ==
  \A i \in (Len(system_logs) + 1)..Len(system_logs') :
    system_logs'[i].user_id = system_logs'[i].by

\* C21, as stated: the system log is append-only and readable only by admins:
\* no step updates or removes an existing row of system_logs, a select by a
\* user who is no admin returns no row (and a Logs view fetched by such a
\* user is empty), and a row is inserted only with the user_id of the user
\* who makes the insert.
C21_AppendOnly ==
  /\ []NonAdminsReadNothing
  /\ [][/\ Len(system_logs') >= Len(system_logs)
        /\ \A i \in 1..Len(system_logs) : system_logs'[i] = system_logs[i]
        /\ InsertsOwnIdOnly
        /\ NonAdminViewsStayEmpty]_vars

\* C21, amended: no request of a user updates or removes a row of
\* system_logs, and no step removes one; an existing row changes in one way
\* only, its user_id becoming null in the step that removes the account it
\* names; a select by a user who is no admin returns no row (and a Logs view
\* fetched by such a user is empty); a row is inserted only with the user_id
\* of the user who makes the insert, so that every row names its inserter or,
\* once the inserter's account is removed, nobody.
C21_LogsAppendOnlyAdminRead ==
  /\ []NonAdminsReadNothing
  /\ [](\A i \in 1..Len(system_logs) :
          \/ system_logs[i].user_id = system_logs[i].by
          \/ system_logs[i].user_id = NoUser /\ system_logs[i].by \notin registered)
  /\ [][/\ Len(system_logs') >= Len(system_logs)
        /\ \A i \in 1..Len(system_logs) :
             \/ system_logs'[i] = system_logs[i]
             \/ /\ system_logs'[i] = [system_logs[i] EXCEPT !.user_id = NoUser]
                /\ system_logs[i].user_id \in registered \ registered'
        /\ system_logs' # system_logs =>
             ~\E caller \in UserIds, op \in {"update", "delete"},
                 id \in 1..MaxLogs : ChangeLog(caller, op, id)
        /\ InsertsOwnIdOnly
        /\ NonAdminViewsStayEmpty]_vars

\* u1 and a2 have inserted a row each and the account of u1 was removed: the
\* row of u1 names nobody, the Logs view of the admin a2 shows both rows, and
\* the Logs view of u1, fetched while u1 had an account, showed none.
C21_Witness ==
  /\ Len(system_logs) = 2
  /\ system_logs[1].by = "u1"
  /\ system_logs[1].user_id = NoUser
  /\ "u1" \notin registered
  /\ system_logs[2].user_id = "a2"
  /\ has_role(user_roles, "a2", "admin")
  /\ ~logsView["a2"].fetching
  /\ logsView["a2"].logs = Reverse(system_logs)
  /\ ~logsView["u1"].isLoading
  /\ logsView["u1"].logs = <<>>

---------------------------------------------------------------------------
(* The Chat view while requests are in flight *)

\* No request of the Chat view is in flight.
AllResolved ==
  /\ \A k \in DOMAIN calls : calls[k].pc = "done"
  /\ chatCalls = EmptyBag
  /\ fetches = EmptyBag
  /\ ~listing

\* The ids of the local list of conversations.
ListedIds == {conversations[j].id : j \in 1..Len(conversations)}

\* C22: when every request has resolved, the active conversation is none or
\* one of the local list; a deleted conversation does not stay active.
C22_ActiveIsListed ==
  AllResolved => (activeConversationId = Null \/ activeConversationId \in ListedIds)

\* Call k has shown its user message and has not come to its end.
SendInFlight(k) ==
  calls[k].pc \in {"userInsert", "titleUpdate", "fetch", "reading", "insert"}

\* The transcript holds the user message of call k.
ShowsUserMessage(k, transcript) ==
  \E j \in 1..Len(transcript) : transcript[j] = UserMessageOf(k)

\* C26: while a send is in flight in a view that stays mounted, and the user
\* starts no other handler and selects no other conversation, the user
\* message the send has appended stays in the transcript, also when a
\* message fetch resolves.
C26_OptimisticMessageStays ==
  [][\A k \in DOMAIN calls :
       (/\ SendInFlight(k)
        /\ calls[k].live /\ calls'[k].live
        /\ UNCHANGED <<userActions, activeConversationId>>
        /\ ShowsUserMessage(k, messages))
         => ShowsUserMessage(k, messages')]_vars

\* C25: the deltas of a send are written to the assistant entry that the
\* send appends: the first delta written appends an entry to the transcript,
\* every later one changes the content of that last entry only, and no
\* other entry of the transcript changes, also after the transcript was
\* fetched again while the stream was in flight.
C25_DeltasInOwnEntry ==
  [][\A k \in DOMAIN calls :
       (/\ calls[k].pc = "reading"
        /\ calls[k].live
        /\ calls'[k].emitted # calls[k].emitted) =>
         IF calls[k].emitted = <<>>
         THEN messages' = Append(messages,
                                 [role |-> "assistant",
                                  content |-> calls'[k].assistantContent])
         ELSE /\ Len(messages') = Len(messages)
              /\ \A j \in 1..Len(messages) :
                   messages'[j] = IF j = Len(messages)
                                  THEN [role |-> "assistant",
                                        content |-> calls'[k].assistantContent]
                                  ELSE messages[j]]_vars

\* C24: the assistant message that a send stores is the assistant entry it
\* has shown: a row is stored only when the send has written a delta to the
\* transcript, and with the last text written; a stream without a delta and
\* a response without a body store no assistant message.
C24_PersistedIsShown ==
  [][(pc = "insert" /\ Stores("assistant")) =>
       /\ emitted # <<>>
       /\ dbMessages'[Len(dbMessages')].content = emitted[Len(emitted)]]_vars

---------------------------------------------------------------------------
(* The parser and the cut of the stream into chunks *)

\* The parser as the read loop starts it, before the first chunk (the
\* transcript left as it is: it is not compared).
FreshParser ==
  [ParserState EXCEPT !.buffer = <<>>, !.assistantContent = <<>>,
                      !.emitted = <<>>, !.deltas = <<>>, !.doneSeen = FALSE]

\* C23: the texts emitted and the accumulated text depend on the bytes
\* received only: they are those of a parser that receives the same bytes
\* as one chunk, whatever lines the bytes hold.
C23_ChunkingIndependent ==
  LET whole == OnChunk(FreshParser, received)
  IN <<emitted, assistantContent>> = <<whole.emitted, whole.assistantContent>>

\* Every iteration of a pass from st on removes the first line of the
\* buffer, or leaves the loop.
RECURSIVE EachIterationProgresses(_)
EachIterationProgresses(st) ==
  IndexOf(st.buffer, NL) # 0 =>
    LET r == LineStep(st)
    IN \/ ~r.more
       \/ /\ r.st.buffer = AfterFirstLine(st.buffer)
          /\ EachIterationProgresses(r.st)

\* C30: the pass over a chunk ends: every iteration removes one complete
\* line or leaves the loop, so the pass makes one iteration for each line it
\* removes, and one more when it ends on a parse failure, whose line is
\* pushed back and not extracted again in that pass.
C30_ChunkPassTerminates ==
  [][ReadsChunk =>
       LET start == [ParserState EXCEPT !.buffer = buffer \o ChunkRead]
           end == OnChunk(ParserState, ChunkRead)
           removed == CountLines(start.buffer) - CountLines(end.buffer)
       IN /\ EachIterationProgresses(start)
          /\ end.buffer = buffer'
          /\ end.steps = removed + (IF end.lastKind = "fail" THEN 1 ELSE 0)
          /\ end.steps <= CountLines(start.buffer)]_vars

\* A pass has ended on a line that does not parse, with a complete line
\* behind it left in the buffer.
C30_Witness ==
  /\ pc = "reading"
  /\ Stalled(buffer)
  /\ CountLines(buffer) >= 2
  /\ emitted # <<>>

---------------------------------------------------------------------------
(* The guards of handleRoleChange *)

\* The step is a handleRoleChange of session c that sends its first
\* request, the delete, for the user and the role of `call`.
SendsDelete(c, call) ==
  /\ call.at = "delete"
  /\ CopiesIn(call, rc'[c]) > CopiesIn(call, rc[c])

\* C28: handleRoleChange makes a request only with the role admin and for
\* another user; called with another role it returns and shows nothing,
\* called for the caller it shows 'Cannot change own role', and in both cases
\* the role table and the calls in flight stay as they are; the role table
\* changes only by a sign-up or by the answer to a call that passed the
\* guards.
C28_GuardsRefuse ==
  [][/\ \A c \in Sessions :
          /\ \A call \in BagToSet(rc'[c]) :
               SendsDelete(c, call) =>
                 currentRole[c] = "admin" /\ call.userId # c
          /\ \A userId \in UserIds, newRole \in AppRole :
               RoleChangeRefused(c, userId, newRole) =>
                 /\ UNCHANGED <<user_roles, rc>>
                 /\ roleToast' =
                      IF currentRole[c] # "admin" THEN roleToast
                      ELSE [title |-> "Cannot change own role",
                            description |-> "You cannot change your own role."]
     /\ (user_roles' # user_roles /\ registered' = registered) =>
          \E c \in Sessions : rc'[c] # rc[c] /\ rc[c] # EmptyBag]_vars

\* An admin has been refused a change of their own role, while another
\* session holds a role that is not admin, and every user has the role they
\* started with.
C28_Witness ==
  /\ roleToast.title = "Cannot change own role"
  /\ \E c \in Sessions : currentRole[c] # "admin"
  /\ \A a \in Admins : RolesOf(user_roles, a) = {"admin"}
  /\ \A c \in Sessions : rc[c] = EmptyBag

---------------------------------------------------------------------------
(* The navigation entries of each role *)

\* The paths of the entries the navigation is specified to show to a role.
PathsFor(role) ==
  CASE role = "user" -> <<"/chat">>
    [] role = "legal_analyst" -> <<"/chat", "/documents">>
    [] role = "admin" -> <<"/chat", "/documents", "/users", "/logs">>
    [] OTHER -> <<>>

\* C29: the navigation of every session shows exactly the entries whose role
\* list contains the session's role: Chat to a user; Chat and Documents to a
\* legal_analyst; Chat, Documents, Users and System Logs to an admin; and no
\* entry while the role is not resolved.
C29_NavByRole ==
  \A c \in Sessions :
    LET shown == visibleNavItems(currentRole[c])
    IN /\ Paths(shown) = PathsFor(currentRole[c])
       /\ \A i \in 1..Len(navItems) :
            (currentRole[c] \in navItems[i].roles) <=>
              (\E j \in 1..Len(shown) : shown[j] = navItems[i])

\* One session has no role and the other is a legal_analyst.
C29_Witness ==
  /\ currentRole["a1"] = NoRole
  /\ currentRole["a2"] = "legal_analyst"

---------------------------------------------------------------------------
(* The flags of a send *)

\* sendMessage has returned with both flags reset.
Returned == pc = "done" /\ ~isLoading /\ ~isStreaming

\* C27: a send that has set isLoading returns, and when it has returned,
\* after the stream ended, after a status that is not 2xx, or after a failed
\* fetch or read, isLoading and isStreaming are both false.
C27_FlagsReset ==
  /\ [](pc = "done" => ~isLoading /\ ~isStreaming)
  /\ (isLoading ~> Returned)

\* The send returned through the catch block after a read of the body
\* failed, the flags reset.
C27_Witness ==
  /\ Returned
  /\ status = 200
  /\ received # <<>>
  /\ toasts # <<>>

====
